---- MODULE Spec2Model ----
(***************************************************************************)
(* Business-Notifications: delivery decision, bulk fan-out and push        *)
(* subscription health.                                                    *)
(*                                                                         *)
(* The components share this module, each with its own specification:      *)
(*   DecideSpec - UserPreferences / NotificationDomainService decisions    *)
(*   BulkSpec   - SendBulkNotifications.execute and executeBatched         *)
(*   CreateSpec - CreateNotification.execute and queue submission          *)
(*   Spec       - PushNotificationQueue worker, jobs running side by side  *)
(*   SerialSpec - the worker with one job in flight, repository healthy    *)
(*   FaultSpec  - the worker with one job in flight, repository calls may  *)
(*                reject and BullMQ retries the job                        *)
(*   RetrySpec  - FaultSpec with a worker that keeps running, devices      *)
(*                registered before the first job                          *)
(*   PresenceSpec - WebSocketManager driven by SocketIOHandler             *)
(*   QuietSpec  - isQuietHours over a finer grid of times and zones        *)
(*   ResolveSpec - both use cases resolving channels for one payload       *)
(*   ValidateSpec - validateNotification over a set of entities            *)
(*   ListSpec   - filterExpired and sortByPriority over arrays             *)
(*   MarkSpec   - MarkAsRead.execute and executeMany                       *)
(*   ProviderSpec - sendBatch of both providers on any list                *)
(*   SubscribeSpec - ManageSubscription.subscribe with requests of every   *)
(*                shape                                                    *)
(***************************************************************************)
EXTENDS Integers, Sequences, FiniteSets, TLC

\* ------------------------------------------------------------------------
\* Bounds
\* ------------------------------------------------------------------------
HourStep == 12
MaxRecipients == 3
MaxBatchSize == 3
MaxNotifications == 2
MaxJobs == 3
MaxRetriedJobs == 2
MaxLiveJobs == 1
Concurrency == 2

\* ------------------------------------------------------------------------
\* Enumerations (schemas.ts: Notification.ts part)
\* ------------------------------------------------------------------------
NotificationType == {"INFO"}

NotificationChannel == {"IN_APP", "PUSH", "WEBSOCKET", "ALL"}

NotificationPriority == {"LOW", "NORMAL", "HIGH", "URGENT"}

ChannelKeys == {"inApp", "push", "websocket"}

\* ------------------------------------------------------------------------
\* Variables
\* ------------------------------------------------------------------------
VARIABLES
  \* UserPreferences entity of one recipient and the wall clock
  preferences,      \* type -> [inApp, push, websocket]
  quietHours,       \* [enabled, startTime, endTime]  (times are [h, m])
  clock,            \* [h, m]: new Date().getHours() / getMinutes()
  serverZone,       \* the time zone of the server process (TZ)
  lastDecision,     \* last shouldSendToUser call and its result
  \* dispatcher: collaborators, single create, bulk execute / executeBatched
  prefsRepo,        \* userId -> outcome of preferencesRepository.findByUserId
  saveThrows,       \* userId -> BOOLEAN (notificationRepository.save throws)
  dto,              \* the request: [userIds, channels]
  notifications,    \* notification repository: set of stored documents
  nextId,           \* uuid source
  call,             \* execute call frame
  execResult,       \* what the last direct execute call returned
  bcall,            \* executeBatched call frame
  created,          \* outcome of the last CreateNotification.execute
  \* push queue, worker and subscription repository
  subs,             \* subscription repository: endpoint/token -> document
  jobs,             \* the BullMQ queue: job id -> job and its processJob frame
  streak,           \* history: run of delivered non-endpoint-gone failures
  goneSeen,         \* history: endpoint-gone delivered since activation
  delivered,        \* history: job -> subscription -> sends the push service accepted
  \* real-time channel: WebSocketManager and the sockets of SocketIOHandler
  manager,          \* [userConnections, socketUsers, userMetadata]
  socketState,      \* socket id -> "new" | "open" | "closed"
  authAs,           \* history: the recipients a socket authenticated as
  lastSend,         \* last sendNotificationToUser call and its emissions
  \* NotificationDomainService.validateNotification on a Notification entity
  candidate,        \* the entity handed to validateNotification
  validation,       \* the last call: what it threw ("ok": nothing) and the entity after it
  \* NotificationDomainService.filterExpired / sortByPriority on an array
  items,            \* the array the caller holds
  listCall,         \* the last call: its name, the array before it and the array returned
  \* ManageSubscription on the push_subscriptions collection
  store,            \* the documents of the collection, in insertion order
  subCall,          \* the subscribe call that has settled and not yet returned
  today,            \* the current day
  inFlight,         \* caller -> the subscribe call between its lookup and its write
  issued,           \* the number of ids uuidv4 has handed to new subscriptions
  \* MarkAsRead on the notifications collection
  inbox,            \* per notification id: whether stored, its recipient, its read state
  lastExecute,      \* the last MarkAsRead.execute call and the collection before it
  manyCall,         \* the executeMany call in progress or returned
  \* the providers' sendBatch called on a list of subscriptions
  batch,            \* the list handed to sendBatch
  batchResult,      \* the last sendBatch call: provider and the entries it returned
  \* SocketIOHandler events on the notifications collection
  collection,       \* the documents of the notifications collection, _id = position
  instant,          \* what new Date() returns
  pending,          \* socket id -> the mark_as_read handler waiting for its write
  lastEvent         \* the last event handled and what its handler emitted

decideVars == <<preferences, quietHours, clock, serverZone, lastDecision>>
dispatchVars ==
  <<prefsRepo, saveThrows, dto, notifications, nextId, call, execResult, bcall, created>>
pushVars == <<subs, jobs, streak, goneSeen, delivered>>
wsVars == <<manager, socketState, authAs, lastSend>>
validateVars == <<candidate, validation>>
listVars == <<items, listCall>>
subscribeVars == <<store, subCall, today, inFlight, issued>>
markVars == <<inbox, lastExecute, manyCall>>
providerVars == <<batch, batchResult>>
handlerVars == <<collection, instant, pending, lastEvent>>
vars == <<decideVars, dispatchVars, pushVars, wsVars, validateVars, listVars, subscribeVars,
          markVars, providerVars, handlerVars>>

\* ------------------------------------------------------------------------
\* UserPreferences (schemas.ts 405-511)
\* ------------------------------------------------------------------------
DefaultChannel == [inApp |-> TRUE, push |-> TRUE, websocket |-> TRUE]

getDefaultPreferences == [t \in NotificationType |-> DefaultChannel]

HHMM(h, m) == [h |-> h, m |-> m]

getDefaultQuietHours ==
  [enabled |-> FALSE, startTime |-> HHMM(22, 0), endTime |-> HHMM(8, 0),
   timezone |-> "America/Mexico_City"]

\* times of day the model draws from: a grid plus the default window's ends
HourMarks == {h \in 0..23 : h % HourStep = 0} \cup {22}

TimesOfDay == {HHMM(h, 0) : h \in HourMarks}

\* startHour * 60 + startMinute
Minutes(t) == t.h * 60 + t.m

\* isQuietHours without the branch for a window that spans midnight
isQuietHoursSameDay(qh, now) ==
  IF ~qh.enabled THEN FALSE
  ELSE Minutes(now) >= Minutes(qh.startTime) /\ Minutes(now) < Minutes(qh.endTime)

isQuietHours(qh, now) ==
  IF ~qh.enabled THEN FALSE
  ELSE LET currentMinutes == Minutes(now)
           startMinutes == Minutes(qh.startTime)
           endMinutes == Minutes(qh.endTime)
       IN IF startMinutes < endMinutes
          THEN currentMinutes >= startMinutes /\ currentMinutes < endMinutes
          ELSE currentMinutes >= startMinutes \/ currentMinutes < endMinutes

\* the switch over the channel (schemas.ts 484-498)
channelFlag(typePrefs, channel) ==
  CASE channel = "IN_APP" -> typePrefs.inApp
    [] channel = "PUSH" -> typePrefs.push
    [] channel = "WEBSOCKET" -> typePrefs.websocket
    [] channel = "ALL" -> typePrefs.inApp \/ typePrefs.push \/ typePrefs.websocket
    [] OTHER -> FALSE

shouldReceiveNotification(prefs, qh, now, type, channel) ==
  IF isQuietHours(qh, now) THEN FALSE
  ELSE IF type \notin DOMAIN prefs THEN FALSE
  ELSE channelFlag(prefs[type], channel)

getEnabledChannels(typePrefs) ==
  (IF typePrefs.inApp THEN <<"IN_APP">> ELSE <<>>)
  \o (IF typePrefs.push THEN <<"PUSH">> ELSE <<>>)
  \o (IF typePrefs.websocket THEN <<"WEBSOCKET">> ELSE <<>>)

\* ------------------------------------------------------------------------
\* NotificationDomainService (NotificationDomainService.ts 9-121)
\* ------------------------------------------------------------------------
\* shouldSendToUser that looks at the enablement flag only
shouldSendToUserFlagOnly(priority, type, channel, prefs, qh, now) ==
  IF priority = "URGENT"
  THEN shouldReceiveNotification(prefs, qh, now, type, channel)
  ELSE channelFlag(prefs[type], channel)

shouldSendToUser(priority, type, channel, prefs, qh, now) ==
  IF priority = "URGENT"
  THEN shouldReceiveNotification(prefs, qh, now, type, channel)
  ELSE IF isQuietHours(qh, now) THEN FALSE
  ELSE shouldReceiveNotification(prefs, qh, now, type, channel)

\* ------------------------------------------------------------------------
\* DecideSpec actions
\* ------------------------------------------------------------------------
NoDecision ==
  [called |-> FALSE, priority |-> "NORMAL", type |-> "INFO", channel |-> "ALL",
   result |-> FALSE]

DecideInit ==
  /\ preferences = getDefaultPreferences
  /\ quietHours = getDefaultQuietHours
  /\ clock \in TimesOfDay
  /\ serverZone = "UTC"
  /\ lastDecision = NoDecision

updatePreference(type, key, enabled) ==
  /\ preferences' = [preferences EXCEPT ![type] = [@ EXCEPT ![key] = enabled]]
  /\ UNCHANGED <<quietHours, clock, serverZone, lastDecision>>

updateQuietHours(partial) ==
  /\ quietHours' = [k \in DOMAIN quietHours |->
                      IF k \in DOMAIN partial THEN partial[k] ELSE quietHours[k]]
  /\ UNCHANGED <<preferences, clock, serverZone, lastDecision>>

\* time passes: the server's local time of day becomes t
TickTo(t) ==
  /\ t # clock
  /\ clock' = t
  /\ UNCHANGED <<preferences, quietHours, serverZone, lastDecision>>

Tick == \E t \in TimesOfDay : TickTo(t)

ShouldSendToUser(priority, type, channel) ==
  /\ lastDecision' =
       [called |-> TRUE, priority |-> priority, type |-> type, channel |-> channel,
        result |-> shouldSendToUser(priority, type, channel,
                                    preferences, quietHours, clock)]
  /\ UNCHANGED <<preferences, quietHours, clock, serverZone>>

QuietHoursPartials ==
  [enabled : BOOLEAN] \cup [startTime : TimesOfDay] \cup [endTime : TimesOfDay]


\* ------------------------------------------------------------------------
\* Dispatcher inputs
\* ------------------------------------------------------------------------
\* recipient ids; the empty id is what validateNotification rejects
UserIds == {"u1", "u2", ""}

\* a string is kept as its length and whether trim() leaves it empty
Str(len, blank) == [len |-> len, blank |-> blank]

ValidTitle == Str(100, FALSE)

ValidMessage == Str(500, FALSE)

\* preferences[dto.type] of a stored UserPreferences record
ChannelPreferences == [inApp : BOOLEAN, push : BOOLEAN, websocket : BOOLEAN]

AllOff == [inApp |-> FALSE, push |-> FALSE, websocket |-> FALSE]

PushOnly == [inApp |-> FALSE, push |-> TRUE, websocket |-> FALSE]

\* what preferencesRepository.findByUserId can give for a recipient:
\* it throws, resolves to null, or resolves to a record
NoRecord == [kind |-> "null", prefs |-> DefaultChannel]

LookupThrows == [kind |-> "throw", prefs |-> DefaultChannel]

Found(p) == [kind |-> "found", prefs |-> p]

LookupOutcomes ==
  {NoRecord, LookupThrows} \cup {Found(p) : p \in {AllOff, PushOnly, DefaultChannel}}

\* an optional field of a DTO
Absent == [given |-> FALSE, val |-> <<>>]

AbsentDate == [given |-> FALSE, val |-> 0]

Given(v) == [given |-> TRUE, val |-> v]

\* dto.channels: absent, or a caller-supplied list
ChannelInputs == {Absent, Given(<<>>), Given(<<"IN_APP">>)}

\* lists of distinct recipient ids, at most MaxRecipients long
RECURSIVE DistinctSeqs(_, _)
DistinctSeqs(S, n) ==
  IF n = 0 THEN {<<>>}
  ELSE {<<>>} \cup
       UNION {{<<x>> \o t : t \in DistinctSeqs(S \ {x}, n - 1)} : x \in S}

Range(s) == {s[k] : k \in 1..Len(s)}

\* ------------------------------------------------------------------------
\* validateNotification (NotificationDomainService.ts 10-42); "ok" or the
\* message of the Error thrown
\* ------------------------------------------------------------------------
IsBlank(str) == str.len = 0 \/ str.blank

\* new Date() at the time of the call
Now == 0

\* validateNotification that lets an expiry equal to the current instant pass
validateNotificationLax(n) ==
  IF n.userId \in {"", " "} THEN "User ID is required"
  ELSE IF IsBlank(n.title) THEN "Notification title is required"
  ELSE IF IsBlank(n.message) THEN "Notification message is required"
  ELSE IF n.title.len > 100 THEN "Notification title cannot exceed 100 characters"
  ELSE IF n.message.len > 500 THEN "Notification message cannot exceed 500 characters"
  ELSE IF Len(n.channels) = 0 THEN "At least one notification channel is required"
  ELSE IF n.expiresAt.given /\ n.expiresAt.val < Now
       THEN "Expiration date must be in the future"
  ELSE IF n.actions > 3 THEN "Maximum 3 actions allowed per notification"
  ELSE "ok"

validateNotification(n) ==
  IF n.userId \in {"", " "} THEN "User ID is required"
  ELSE IF IsBlank(n.title) THEN "Notification title is required"
  ELSE IF IsBlank(n.message) THEN "Notification message is required"
  ELSE IF n.title.len > 100 THEN "Notification title cannot exceed 100 characters"
  ELSE IF n.message.len > 500 THEN "Notification message cannot exceed 500 characters"
  ELSE IF Len(n.channels) = 0 THEN "At least one notification channel is required"
  ELSE IF n.expiresAt.given /\ n.expiresAt.val <= Now
       THEN "Expiration date must be in the future"
  ELSE IF n.actions > 3 THEN "Maximum 3 actions allowed per notification"
  ELSE "ok"

\* calculateExpiryDate(30): days from the current instant
calculateExpiryDate(daysFromNow) == Now + daysFromNow

\* new Notification(uuidv4(), userId, dto..., channels, ...)
NewNotification(id, userId, d, channels) ==
  [id |-> id, userId |-> userId, title |-> d.title, message |-> d.message,
   channels |-> channels, actions |-> d.actions,
   expiresAt |-> IF d.expiresAt.given THEN d.expiresAt
                 ELSE Given(calculateExpiryDate(30))]

\* Notification.shouldSendPush (schemas.ts 589-594)
shouldSendPush(n) == "PUSH" \in Range(n.channels) \/ "ALL" \in Range(n.channels)

\* channel selection that prefers the record's channels to the caller's
ResolveChannelsPreferred(d, lookup) ==
  LET channels0 == IF d.channels.given THEN d.channels.val ELSE <<"ALL">>
  IN IF lookup.kind # "found" THEN channels0
     ELSE LET enabledChannels == getEnabledChannels(lookup.prefs)
          IN IF Len(enabledChannels) > 0
             THEN enabledChannels
             ELSE channels0

\* channel selection that falls back to in-app only without a record
ResolveChannelsInApp(d, lookup) ==
  LET channels0 == IF d.channels.given THEN d.channels.val ELSE <<"IN_APP">>
  IN IF lookup.kind # "found" THEN channels0
     ELSE LET enabledChannels == getEnabledChannels(lookup.prefs)
          IN IF Len(enabledChannels) > 0 /\ ~d.channels.given
             THEN enabledChannels
             ELSE channels0

\* channel selection shared by both use cases
\* (SendBulkNotifications.ts 33-38, CreateNotification.ts 26-32)
ResolveChannels(d, lookup) ==
  LET channels0 == IF d.channels.given THEN d.channels.val ELSE <<"ALL">>
  IN IF lookup.kind # "found" THEN channels0
     ELSE LET enabledChannels == getEnabledChannels(lookup.prefs)
          IN IF Len(enabledChannels) > 0 /\ ~d.channels.given
             THEN enabledChannels
             ELSE channels0

\* ------------------------------------------------------------------------
\* SendBulkNotifications (SendBulkNotifications.ts)
\* ------------------------------------------------------------------------
toResponseDTO(n) == [id |-> n.id, userId |-> n.userId, channels |-> n.channels]

NoNotification ==
  [id |-> 0, userId |-> "", title |-> Str(0, FALSE), message |-> Str(0, FALSE),
   channels |-> <<>>, actions |-> 0, expiresAt |-> AbsentDate]

\* one pass through the body of the for loop of execute (lines 28-74) for one
\* recipient: "ok" with the notification to save, or the failed entry
Failure(userId, error) ==
  [ok |-> FALSE, userId |-> userId, error |-> error, notification |-> NoNotification]

IterOutcome(userId, d, lookup, saveFails, id) ==
  IF lookup.kind = "throw" THEN Failure(userId, "Failed to find user preferences")
  ELSE LET channels == ResolveChannels(d, lookup)
           notification == NewNotification(id, userId, d, channels)
           valid == validateNotification(notification)
       IN IF lookup.kind = "found" /\ Len(channels) = 0
          THEN Failure(userId, "User has disabled all channels for this type")
          ELSE IF valid # "ok" THEN Failure(userId, valid)
          ELSE IF saveFails THEN Failure(userId, "Failed to save notification")
          ELSE [ok |-> TRUE, userId |-> userId, error |-> "",
                notification |-> notification]

IdleCall ==
  [pc |-> "idle", by |-> "direct", userIds |-> <<>>, i |-> 1,
   successful |-> <<>>, failed |-> <<>>]

NoResult == [returned |-> FALSE, successful |-> <<>>, failed |-> <<>>]

IdleBatched ==
  [pc |-> "idle", batchSize |-> 0, i |-> 0, allSuccessful |-> <<>>, allFailed |-> <<>>]

NotCreated ==
  [called |-> FALSE, ok |-> FALSE, id |-> 0, error |-> "", statusCode |-> 0,
   request |-> [userId |-> "", channels |-> Absent]]

\* Array.prototype.slice(start, end)
Max(a, b) == IF a > b THEN a ELSE b

Min(a, b) == IF a < b THEN a ELSE b

\* slice with the end taken as inclusive of one element less
sliceShort(s, start, end) ==
  LET len == Len(s)
      from == IF start < 0 THEN Max(len + start, 0) ELSE Min(start, len)
      to == IF end - 1 < 0 THEN Max(len + end - 1, 0) ELSE Min(end - 1, len)
  IN IF to <= from THEN <<>> ELSE SubSeq(s, from + 1, to)

slice(s, start, end) ==
  LET len == Len(s)
      from == IF start < 0 THEN Max(len + start, 0) ELSE Min(start, len)
      to == IF end < 0 THEN Max(len + end, 0) ELSE Min(end, len)
  IN IF to <= from THEN <<>> ELSE SubSeq(s, from + 1, to)

\* sendBulkNotifications.execute(dto) is called (routes.ts 45)
ExecuteStart ==
  /\ call.pc = "idle"
  /\ bcall.pc \in {"idle", "done"}
  /\ ~execResult.returned
  /\ call' = [IdleCall EXCEPT !.pc = "loop", !.userIds = dto.userIds]
  /\ UNCHANGED <<prefsRepo, saveThrows, dto, notifications, nextId, execResult,
                 bcall, created>>

\* the loop body with a catch block that records nothing
ExecuteIterSwallow ==
  /\ call.pc = "loop"
  /\ call.i <= Len(call.userIds)
  /\ LET userId == call.userIds[call.i]
         out == IterOutcome(userId, dto, prefsRepo[userId], saveThrows[userId], nextId)
     IN /\ IF out.ok
           THEN /\ notifications' = notifications \cup {out.notification}
                /\ call' = [call EXCEPT !.i = @ + 1,
                              !.successful = Append(@, toResponseDTO(out.notification))]
           ELSE /\ notifications' = notifications
                /\ call' = [call EXCEPT !.i = @ + 1]
        /\ nextId' = IF out.ok THEN nextId + 1 ELSE nextId
  /\ UNCHANGED <<prefsRepo, saveThrows, dto, execResult, bcall, created>>

\* the loop body with a failure that ends the loop
ExecuteIterAbort ==
  /\ call.pc = "loop"
  /\ call.i <= Len(call.userIds)
  /\ LET userId == call.userIds[call.i]
         out == IterOutcome(userId, dto, prefsRepo[userId], saveThrows[userId], nextId)
     IN /\ IF out.ok
           THEN /\ notifications' = notifications \cup {out.notification}
                /\ call' = [call EXCEPT !.i = @ + 1,
                              !.successful = Append(@, toResponseDTO(out.notification))]
           ELSE /\ notifications' = notifications
                /\ call' = [call EXCEPT !.i = Len(call.userIds) + 1,
                              !.failed = Append(@, [userId |-> userId, error |-> out.error])]
        /\ nextId' = IF out.ok THEN nextId + 1 ELSE nextId
  /\ UNCHANGED <<prefsRepo, saveThrows, dto, execResult, bcall, created>>

\* for (const userId of dto.userIds) { try { ... } catch { ... } }
ExecuteIter ==
  /\ call.pc = "loop"
  /\ call.i <= Len(call.userIds)
  /\ LET userId == call.userIds[call.i]
         out == IterOutcome(userId, dto, prefsRepo[userId], saveThrows[userId], nextId)
     IN /\ IF out.ok
           THEN /\ notifications' = notifications \cup {out.notification}
                /\ call' = [call EXCEPT !.i = @ + 1,
                              !.successful = Append(@, toResponseDTO(out.notification))]
           ELSE /\ notifications' = notifications
                /\ call' = [call EXCEPT !.i = @ + 1,
                              !.failed = Append(@, [userId |-> userId, error |-> out.error])]
        /\ nextId' = IF out.ok THEN nextId + 1 ELSE nextId
  /\ UNCHANGED <<prefsRepo, saveThrows, dto, execResult, bcall, created>>

\* i += batchSize is followed down to -(length + 1): from -length on every
\* slice(i, i + batchSize) is empty and i < length stays true, so the lower
\* values of i are kept as that one
CursorFloor == -(Len(dto.userIds) + 1)

\* return { successful, failed }
ExecuteReturn ==
  /\ call.pc = "loop"
  /\ call.i > Len(call.userIds)
  /\ call' = IdleCall
  /\ IF call.by = "direct"
     THEN /\ execResult' = [returned |-> TRUE, successful |-> call.successful,
                            failed |-> call.failed]
          /\ bcall' = bcall
     ELSE /\ execResult' = execResult
          /\ bcall' = [bcall EXCEPT !.pc = "loop",
                         !.i = Max(@ + bcall.batchSize, CursorFloor),
                         !.allSuccessful = @ \o call.successful,
                         !.allFailed = @ \o call.failed]
  /\ UNCHANGED <<prefsRepo, saveThrows, dto, notifications, nextId, created>>

\* executeBatched(dto, batchSize) is called
ExecuteBatchedStart(batchSize) ==
  /\ call.pc = "idle"
  /\ bcall.pc = "idle"
  /\ bcall' = [IdleBatched EXCEPT !.pc = "loop", !.batchSize = batchSize]
  /\ UNCHANGED <<prefsRepo, saveThrows, dto, notifications, nextId, call,
                 execResult, created>>

\* loop head: the next batch is sliced off and handed to execute
ExecuteBatchedIter ==
  /\ bcall.pc = "loop"
  /\ bcall.i < Len(dto.userIds)
  /\ call' = [IdleCall EXCEPT !.pc = "loop", !.by = "batched",
                !.userIds = slice(dto.userIds, bcall.i, bcall.i + bcall.batchSize)]
  /\ bcall' = [bcall EXCEPT !.pc = "await"]
  /\ UNCHANGED <<prefsRepo, saveThrows, dto, notifications, nextId, execResult, created>>

ExecuteBatchedReturn ==
  /\ bcall.pc = "loop"
  /\ bcall.i >= Len(dto.userIds)
  /\ bcall' = [bcall EXCEPT !.pc = "done"]
  /\ UNCHANGED <<prefsRepo, saveThrows, dto, notifications, nextId, call,
                 execResult, created>>

\* ------------------------------------------------------------------------
\* CreateNotification.execute (CreateNotification.ts 20-63): the whole call
\* ------------------------------------------------------------------------
AppError(message, statusCode) ==
  [called |-> TRUE, ok |-> FALSE, id |-> 0, error |-> message, statusCode |-> statusCode]

CreateOutcome(d, lookup, saveFails, id) ==
  IF lookup.kind = "throw" THEN AppError("Failed to find user preferences", 500)
  ELSE LET channels == ResolveChannels(d, lookup)
           notification == NewNotification(id, d.userId, d, channels)
           valid == validateNotification(notification)
       IN IF valid # "ok" THEN AppError(valid, 500)
          ELSE IF saveFails THEN AppError("Failed to save notification", 500)
          ELSE [called |-> TRUE, ok |-> TRUE, id |-> id, error |-> "", statusCode |-> 201]

CreateNotification(d) ==
  /\ nextId <= MaxNotifications
  /\ LET lookup == prefsRepo[d.userId]
         out == CreateOutcome(d, lookup, saveThrows[d.userId], nextId)
     IN /\ created' = [called |-> out.called, ok |-> out.ok, id |-> out.id,
                       error |-> out.error, statusCode |-> out.statusCode,
                       request |-> [userId |-> d.userId, channels |-> d.channels]]
        /\ IF out.ok
           THEN /\ notifications' = notifications \cup
                     {NewNotification(nextId, d.userId, d, ResolveChannels(d, lookup))}
                /\ nextId' = nextId + 1
           ELSE UNCHANGED <<notifications, nextId>>
  /\ UNCHANGED <<prefsRepo, saveThrows, dto, call, execResult, bcall>>

\* ------------------------------------------------------------------------
\* PushSubscription entity (unnamed/part_000)
\* ------------------------------------------------------------------------
SubIds == {"w1", "w2", "f1"}

\* the device class a client registers each endpoint/token with
DeviceOf(s) == IF s = "f1" THEN "ANDROID" ELSE "WEB"

PushUsers == {"u1", "u2"}

\* the account that registers each device
OwnerOf(s) == IF s = "f1" THEN "u2" ELSE "u1"

NoSub ==
  [present |-> FALSE, id |-> "", userId |-> "", deviceType |-> "WEB",
   isActive |-> FALSE, failureCount |-> 0]

deactivate(sub) == [sub EXCEPT !.isActive = FALSE]

\* activate that leaves the failure count as it was
activateFlagOnly(sub) == [sub EXCEPT !.isActive = TRUE]

activate(sub) == [sub EXCEPT !.isActive = TRUE, !.failureCount = 0]

\* recordFailure that deactivates only once the count passes the threshold
recordFailureLate(sub) ==
  LET counted == [sub EXCEPT !.failureCount = @ + 1]
  IN IF counted.failureCount > 3 THEN deactivate(counted) ELSE counted

recordFailure(sub) ==
  LET counted == [sub EXCEPT !.failureCount = @ + 1]
  IN IF counted.failureCount >= 3 THEN deactivate(counted) ELSE counted

recordSuccess(sub) == [sub EXCEPT !.failureCount = 0]

\* subscribe validates that WEB has keys and mobile a token, so the device
\* class decides the family
isWebPush(sub) == sub.deviceType = "WEB"

isFCM(sub) == sub.deviceType \in {"ANDROID", "IOS"}

\* ------------------------------------------------------------------------
\* ManageSubscription.subscribe (unnamed/part_002 10-54)
\* ------------------------------------------------------------------------
Subscribe(s, userId) ==
  /\ IF subs[s].present
     THEN subs' = [subs EXCEPT ![s] = activate(@)]
     ELSE subs' = [subs EXCEPT ![s] =
                     [present |-> TRUE, id |-> s, userId |-> userId,
                      deviceType |-> DeviceOf(s), isActive |-> TRUE,
                      failureCount |-> 0]]
  /\ streak' = [streak EXCEPT ![s] = 0]
  /\ goneSeen' = [goneSeen EXCEPT ![s] = FALSE]
  /\ UNCHANGED <<jobs, delivered>>

\* ------------------------------------------------------------------------
\* Push providers: what sendBatch reports to the worker for one subscription
\* ------------------------------------------------------------------------
\* what the push service answers for one endpoint/token:
\*   "OK"    delivered
\*   "GONE"  web: HTTP 404/410; FCM: registration-token-not-registered or
\*           invalid-registration-token
\*   "OTHER" any other rejection
RawOutcomes == {"OK", "GONE", "OTHER"}

\* WebPushProvider.sendBatch -> send (WebPushProvider.ts 62-77, 94-104)
WebResult(id, raw) ==
  [id |-> id, ok |-> raw = "OK", raw |-> raw,
   error |-> CASE raw = "OK" -> ""
               [] raw = "GONE" -> "SUBSCRIPTION_EXPIRED"
               [] OTHER -> "Failed to send Web Push notification"]

\* FCMProvider.sendBatch (FCMProvider.ts 180-190): res.error?.message
FCMResult(id, raw) ==
  [id |-> id, ok |-> raw = "OK", raw |-> raw,
   error |-> CASE raw = "OK" -> ""
               [] raw = "GONE" -> "Requested entity was not found."
               [] OTHER -> "Internal error encountered."]

\* FCMProvider.sendBatch catch branch (195-204): every subscription failed
FCMBatchError(id) ==
  [id |-> id, ok |-> FALSE, raw |-> "OTHER", error |-> "Batch send failed"]

\* ------------------------------------------------------------------------
\* PushNotificationQueue (FCMProvider.ts 258-420)
\* ------------------------------------------------------------------------
Attempts == 3

JobIds == 1..MaxJobs

NoJob ==
  [state |-> "none", userId |-> "", notificationId |-> 0, attemptsMade |-> 0,
   pc |-> "", subscriptions |-> <<>>, results |-> <<>>]

\* the job returned: nothing of its frame is looked at again
Completed(job) == [NoJob EXCEPT !.state = "completed"]

\* enqueue(notification): queue.add(..., {attempts: 3, backoff})
Enqueue(n, capacity) ==
  /\ \E j \in 1..capacity :
       /\ jobs[j].state = "none"
       /\ \A k \in JobIds : k < j => jobs[k].state # "none"
       /\ jobs' = [jobs EXCEPT ![j] =
                     [NoJob EXCEPT !.state = "waiting", !.userId = n.userId,
                        !.notificationId = n.id]]
  /\ UNCHANGED <<subs, streak, goneSeen, delivered>>

\* the subscription repository in a fixed document order
SubOrder == <<"w1", "w2", "f1">>

\* findActiveByUserId: find({userId, isActive: true}) mapped to entities
findActiveByUserId(userId) ==
  LET Match(s) == subs[s].present /\ subs[s].userId = userId /\ subs[s].isActive
      ids == SelectSeq(SubOrder, Match)
  IN [k \in 1..Len(ids) |-> subs[ids[k]]]

webPushSubs(subscriptions) == SelectSeq(subscriptions, isWebPush)

fcmSubs(subscriptions) == SelectSeq(subscriptions, isFCM)

Running == {j \in JobIds : jobs[j].state = "active"}

Quiet == Running = {}

\* a queue that gives a job one execution more than `attempts`
ThrowOnceMore(job) ==
  [job EXCEPT !.state = IF job.attemptsMade + 1 > Attempts THEN "failed" ELSE "waiting",
     !.attemptsMade = @ + 1, !.pc = "", !.subscriptions = <<>>, !.results = <<>>]

\* the attempt threw: BullMQ retries until `attempts` executions were made
Throw(job) ==
  [job EXCEPT !.state = IF job.attemptsMade + 1 >= Attempts THEN "failed" ELSE "waiting",
     !.attemptsMade = @ + 1, !.pc = "", !.subscriptions = <<>>, !.results = <<>>]

\* a worker slot takes a waiting job; processJob runs to its first await and
\* the lookup of the active subscriptions resolves (or rejects)
ProcessJobLoad(j, slots, lookupThrows) ==
  /\ jobs[j].state = "waiting"
  /\ Cardinality(Running) < slots
  /\ LET subscriptions == findActiveByUserId(jobs[j].userId)
         started == [jobs[j] EXCEPT !.state = "active"]
     IN jobs' = [jobs EXCEPT ![j] =
          IF lookupThrows THEN Throw(started)
          ELSE IF Len(subscriptions) = 0 THEN Completed(started)
          ELSE [started EXCEPT !.subscriptions = subscriptions,
                  !.pc = IF Len(webPushSubs(subscriptions)) > 0 THEN "web" ELSE "fcm"]]
  /\ UNCHANGED <<subs, streak, goneSeen, delivered>>

\* history of what the push services answered per subscription, kept when
\* an observer is attached
Deliver(results, history) ==
  LET Of(s) == CHOOSE k \in 1..Len(results) : results[k].id = s
      Has(s) == \E k \in 1..Len(results) : results[k].id = s
  IN /\ streak' = [s \in SubIds |->
                     IF ~Has(s) \/ ~history THEN streak[s]
                     ELSE IF results[Of(s)].raw = "OK" THEN 0
                     ELSE IF results[Of(s)].raw = "OTHER" THEN streak[s] + 1
                     ELSE streak[s]]
     /\ goneSeen' = [s \in SubIds |->
                       goneSeen[s] \/ (history /\ Has(s) /\ results[Of(s)].raw = "GONE")]

\* history of the sends of job j that the push service accepted, kept when
\* an observer is attached
Sent(j, results, history) ==
  delivered' =
    IF ~history THEN delivered
    ELSE [delivered EXCEPT ![j] =
            [s \in SubIds |->
               IF \E k \in 1..Len(results) : results[k].id = s /\ results[k].raw = "OK"
               THEN delivered[j][s] + 1 ELSE delivered[j][s]]]

\* successful first, then failed, as the worker walks the two lists
Successful(results) == SelectSeq(results, LAMBDA r : r.ok)

Failed(results) == SelectSeq(results, LAMBDA r : ~r.ok)

Permutations2(n) == {f \in [1..n -> 1..n] : \A a, b \in 1..n : a # b => f[a] # f[b]}

\* webPushProvider.sendBatch resolves: one result per subscription, in the
\* order the sends completed
WebSendBatch(j, history) ==
  /\ jobs[j].state = "active"
  /\ jobs[j].pc = "web"
  /\ LET targets == webPushSubs(jobs[j].subscriptions)
         n == Len(targets)
     IN \E raw \in [1..n -> RawOutcomes], order \in Permutations2(n) :
          LET results == [k \in 1..n |-> WebResult(targets[order[k]].id, raw[order[k]])]
          IN /\ jobs' = [jobs EXCEPT ![j] =
                  [@ EXCEPT !.pc = "apply-web",
                     !.results = Successful(results) \o Failed(results)]]
             /\ Deliver(results, history)
             /\ Sent(j, results, history)
  /\ UNCHANGED subs

\* fcmProvider.sendBatch resolves: responses by token index, or the
\* multicast call itself threw
FCMSendBatch(j, history) ==
  /\ jobs[j].state = "active"
  /\ jobs[j].pc = "fcm"
  /\ LET targets == fcmSubs(jobs[j].subscriptions)
         n == Len(targets)
     IN \E raw \in [1..n -> RawOutcomes], batchThrows \in BOOLEAN :
          LET results == [k \in 1..n |->
                            IF batchThrows THEN FCMBatchError(targets[k].id)
                            ELSE FCMResult(targets[k].id, raw[k])]
          IN /\ batchThrows => \A k \in 1..n : raw[k] = "OTHER"
             /\ jobs' = [jobs EXCEPT ![j] =
                  [@ EXCEPT !.pc = "apply-fcm",
                     !.results = Successful(results) \o Failed(results)]]
             /\ Deliver(results, history)
             /\ Sent(j, results, history)
  /\ UNCHANGED subs

\* the body of the two result loops for one entry (329-347 / 355-373)
ApplyToEntity(sub, result) ==
  IF result.ok THEN recordSuccess(sub)
  ELSE IF result.error = "SUBSCRIPTION_EXPIRED" THEN deactivate(sub)
  ELSE recordFailure(sub)

\* replaceOne({_id}, doc): the whole document is overwritten
update(repo, sub) ==
  IF repo[sub.id].present THEN [repo EXCEPT ![sub.id] = sub] ELSE repo

\* one entry of the result lists: the entity is mutated and
\* subscriptionRepository.update(sub) resolves or rejects
ApplyResult(j, updateThrows) ==
  /\ jobs[j].state = "active"
  /\ jobs[j].pc \in {"apply-web", "apply-fcm"}
  /\ LET job == jobs[j]
         result == Head(job.results)
         k == CHOOSE m \in 1..Len(job.subscriptions) : job.subscriptions[m].id = result.id
         sub == ApplyToEntity(job.subscriptions[k], result)
         rest == Tail(job.results)
         after == [job EXCEPT !.subscriptions[k] = sub, !.results = rest]
     IN IF updateThrows
        THEN /\ jobs' = [jobs EXCEPT ![j] = Throw(job)]
             /\ subs' = subs
        ELSE /\ subs' = update(subs, sub)
             /\ jobs' = [jobs EXCEPT ![j] =
                  IF rest # <<>> THEN after
                  ELSE IF job.pc = "apply-web" /\ Len(fcmSubs(job.subscriptions)) > 0
                  THEN [after EXCEPT !.pc = "fcm"]
                  ELSE Completed(after)]
  /\ UNCHANGED <<streak, goneSeen, delivered>>

\* ------------------------------------------------------------------------
\* WebSocketManager (WebSocketManager.ts) and SocketIOHandler
\* ------------------------------------------------------------------------
Sockets == {"s1", "s2", "s3"}

WsUsers == {"u1", "u2"}

\* a Map entry of userConnections: the key is absent or holds a Set
NoEntry == [has |-> FALSE, sockets |-> {}]

\* socketUsers.get(socketId) of an absent key: undefined
NoUser == ""

EmptyManager ==
  [userConnections |-> [u \in WsUsers |-> NoEntry],
   socketUsers |-> [x \in Sockets |-> NoUser],
   userMetadata |-> {}]

\* addConnection that drops an id it finds registered for the recipient
addConnectionToggle(m, socketId, userId) ==
  LET entry == IF m.userConnections[userId].has THEN m.userConnections[userId]
               ELSE [has |-> TRUE, sockets |-> {}]
      sockets == IF socketId \in entry.sockets THEN entry.sockets \ {socketId}
                 ELSE entry.sockets \cup {socketId}
  IN [userConnections |->
        [m.userConnections EXCEPT ![userId] = [entry EXCEPT !.sockets = sockets]],
      socketUsers |-> [m.socketUsers EXCEPT ![socketId] = userId],
      userMetadata |-> m.userMetadata \cup {userId}]

addConnection(m, socketId, userId) ==
  LET entry == IF m.userConnections[userId].has THEN m.userConnections[userId]
               ELSE [has |-> TRUE, sockets |-> {}]
  IN [userConnections |->
        [m.userConnections EXCEPT ![userId] = [entry EXCEPT !.sockets = @ \cup {socketId}]],
      socketUsers |-> [m.socketUsers EXCEPT ![socketId] = userId],
      userMetadata |-> m.userMetadata \cup {userId}]

\* removeConnection that drops the recipient's entry with any of its sockets
removeConnectionEntry(m, socketId) ==
  LET userId == m.socketUsers[socketId]
  IN IF userId = NoUser THEN m
     ELSE [userConnections |-> [m.userConnections EXCEPT ![userId] = NoEntry],
           socketUsers |-> [m.socketUsers EXCEPT ![socketId] = NoUser],
           userMetadata |-> m.userMetadata \ {userId}]

removeConnection(m, socketId) ==
  LET userId == m.socketUsers[socketId]
  IN IF userId = NoUser THEN m
     ELSE LET entry == m.userConnections[userId]
              left == entry.sockets \ {socketId}
              gone == entry.has /\ left = {}
          IN [userConnections |->
                IF ~entry.has THEN m.userConnections
                ELSE IF gone THEN [m.userConnections EXCEPT ![userId] = NoEntry]
                ELSE [m.userConnections EXCEPT ![userId] = [@ EXCEPT !.sockets = left]],
              socketUsers |-> [m.socketUsers EXCEPT ![socketId] = NoUser],
              userMetadata |-> IF gone THEN m.userMetadata \ {userId} ELSE m.userMetadata]

isUserOnline(m, userId) ==
  IF m.userConnections[userId].has
  THEN Cardinality(m.userConnections[userId].sockets) > 0
  ELSE FALSE

\* getUserSockets that answers with every registered socket
getUserSocketsAny(m, userId) == {x \in Sockets : m.socketUsers[x] # NoUser}

getUserSockets(m, userId) ==
  IF m.userConnections[userId].has THEN m.userConnections[userId].sockets ELSE {}

getTotalConnections(m) == Cardinality({x \in Sockets : m.socketUsers[x] # NoUser})

NoSend == [called |-> FALSE, userId |-> "", emitted |-> {}]

WsInit ==
  /\ manager = EmptyManager
  /\ socketState = [x \in Sockets |-> "new"]
  /\ authAs = [x \in Sockets |-> {}]
  /\ lastSend = NoSend

\* io.on('connection'): handleConnection registers the socket's handlers
HandleConnection(x) ==
  /\ socketState[x] = "new"
  /\ socketState' = [socketState EXCEPT ![x] = "open"]
  /\ UNCHANGED <<manager, authAs, lastSend>>

\* socket.on('authenticate'): userId "" stands for a missing userId;
\* countThrows: getUnreadCount rejects, the catch branch disconnects
Authenticate(x, userId, countThrows) ==
  /\ socketState[x] = "open"
  /\ IF userId = ""
     THEN /\ manager' = removeConnection(manager, x)
          /\ socketState' = [socketState EXCEPT ![x] = "closed"]
          /\ authAs' = authAs
     ELSE LET added == addConnection(manager, x, userId)
          IN /\ authAs' = [authAs EXCEPT ![x] = @ \cup {userId}]
             /\ IF countThrows
                THEN /\ manager' = removeConnection(added, x)
                     /\ socketState' = [socketState EXCEPT ![x] = "closed"]
                ELSE /\ manager' = added
                     /\ socketState' = socketState
  /\ UNCHANGED lastSend

\* socket.on('disconnect')
Disconnect(x) ==
  /\ socketState[x] = "open"
  /\ manager' = removeConnection(manager, x)
  /\ socketState' = [socketState EXCEPT ![x] = "closed"]
  /\ UNCHANGED <<authAs, lastSend>>

\* sendNotificationToUser: one emission site per socket id of the recipient;
\* the else branch only logs
SendNotificationToUser(userId) ==
  /\ lastSend' = [called |-> TRUE, userId |-> userId,
                  emitted |-> getUserSockets(manager, userId)]
  /\ UNCHANGED <<manager, socketState, authAs>>

\* ------------------------------------------------------------------------
\* A call of validateNotification on an entity
\* ------------------------------------------------------------------------
NotValidated == [called |-> FALSE, result |-> "", after |-> NoNotification]

ValidateIdle == candidate = NoNotification /\ validation = NotValidated

\* validateNotification(candidate): it throws or returns, and assigns nothing
ValidateNotification ==
  /\ validation' = [called |-> TRUE, result |-> validateNotification(candidate),
                    after |-> candidate]
  /\ UNCHANGED candidate

\* ------------------------------------------------------------------------
\* filterExpired and sortByPriority (NotificationDomainService.ts 62-79,
\* 112-114) on arrays of notifications; an element carries the fields the
\* two methods read, and its id
\* ------------------------------------------------------------------------
\* Notification.isExpired (schemas.ts 584-587) evaluated at instant now
isExpired(n, now) ==
  IF ~n.expiresAt.given THEN FALSE ELSE now > n.expiresAt.val

\* notifications.filter(n => !n.isExpired()): a new array
filterExpired(list, now) ==
  SelectSeq(list, LAMBDA n : ~isExpired(n, now))

getPriorityWeight(priority) ==
  CASE priority = "LOW" -> 1
    [] priority = "NORMAL" -> 2
    [] priority = "HIGH" -> 3
    [] priority = "URGENT" -> 4

\* a comparator that puts the oldest of equal weights first
compareOldestFirst(a, b) ==
  LET weightDiff == getPriorityWeight(b.priority) - getPriorityWeight(a.priority)
  IN IF weightDiff # 0 THEN weightDiff ELSE a.createdAt - b.createdAt

\* the comparator handed to sort (lines 73-78)
compare(a, b) ==
  LET weightDiff == getPriorityWeight(b.priority) - getPriorityWeight(a.priority)
  IN IF weightDiff # 0 THEN weightDiff ELSE b.createdAt - a.createdAt

\* Array.prototype.sort is stable: x goes behind every element that does not
\* compare after it
RECURSIVE InsertSorted(_, _)
InsertSorted(x, sorted) ==
  IF sorted = <<>> THEN <<x>>
  ELSE IF compare(Head(sorted), x) <= 0
       THEN <<Head(sorted)>> \o InsertSorted(x, Tail(sorted))
       ELSE <<x>> \o sorted

RECURSIVE sortByPriority(_)
sortByPriority(list) ==
  IF list = <<>> THEN <<>>
  ELSE LET n == Len(list)
       IN InsertSorted(list[n], sortByPriority(SubSeq(list, 1, n - 1)))

NoListCall == [op |-> "", input |-> <<>>, output |-> <<>>]

ListIdle == items = <<>> /\ listCall = NoListCall

\* const kept = domainService.filterExpired(items)
FilterExpired ==
  /\ listCall' = [op |-> "filterExpired", input |-> items,
                  output |-> filterExpired(items, Now)]
  /\ UNCHANGED items

\* const sorted = domainService.sortByPriority(items): sort works in place
\* and returns the array it was given
SortByPriority ==
  /\ listCall' = [op |-> "sortByPriority", input |-> items,
                  output |-> sortByPriority(items)]
  /\ items' = sortByPriority(items)

\* ------------------------------------------------------------------------
\* ManageSubscription.subscribe (unnamed/part_002 10-54, 110-128) with the
\* request and the stored document in full: endpoint, keys and token
\* ------------------------------------------------------------------------
DeviceType == {"WEB", "ANDROID", "IOS"}

\* dto.keys: absent, present with an empty auth, or with both parts
KeysInputs == {"none", "p256dh-only", "both"}

updateLastUsed(sub, now) == [sub EXCEPT !.lastUsedAt = now]

\* findOne({endpoint}) / findOne({fcmToken}): the first matching document,
\* 0 for null
FirstOf(matching) ==
  IF matching = {} THEN 0
  ELSE CHOOSE k \in matching : \A m \in matching : k <= m

findByEndpoint(docs, endpoint) ==
  FirstOf({k \in 1..Len(docs) : docs[k].endpoint = endpoint})

findByFCMToken(docs, token) ==
  FirstOf({k \in 1..Len(docs) : docs[k].fcmToken = token})

\* lines 17-24: which document the request is matched with
Existing(docs, d) ==
  IF d.deviceType = "WEB" /\ d.endpoint # "" THEN findByEndpoint(docs, d.endpoint)
  ELSE IF d.fcmToken # "" THEN findByFCMToken(docs, d.fcmToken)
  ELSE 0

\* new PushSubscription(uuidv4(), dto.userId, dto.deviceType,
\* dto.endpoint || '', dto.keys, dto.fcmToken, dto.deviceInfo)
NewSubscription(id, d, now) ==
  [id |-> id, userId |-> d.userId, deviceType |-> d.deviceType,
   endpoint |-> d.endpoint, keys |-> d.keys, fcmToken |-> d.fcmToken,
   isActive |-> TRUE, failureCount |-> 0, lastUsedAt |-> now]

\* validateSubscription: 0 for no error, or the status of the AppError
validateSubscription(sub) ==
  IF sub.deviceType = "WEB" /\ sub.endpoint = "" THEN 400
  ELSE IF sub.deviceType = "WEB" /\ sub.keys # "both" THEN 400
  ELSE IF sub.deviceType \in {"ANDROID", "IOS"} /\ sub.fcmToken = "" THEN 400
  ELSE 0

NoDto == [userId |-> "", deviceType |-> "", endpoint |-> "", keys |-> "none", fcmToken |-> ""]

NoSubCall ==
  [called |-> FALSE, dto |-> NoDto, ok |-> FALSE, existing |-> 0, statusCode |-> 0]

SubCall(d, ok, existing, statusCode) ==
  [called |-> TRUE, dto |-> d, ok |-> ok, existing |-> existing, statusCode |-> statusCode]

Callers == {"a", "b"}

NoDoc ==
  [id |-> 0, userId |-> "", deviceType |-> "", endpoint |-> "", keys |-> "none",
   fcmToken |-> "", isActive |-> FALSE, failureCount |-> 0, lastUsedAt |-> 0]

NoFrame == [pc |-> "idle", dto |-> NoDto, found |-> FALSE, entity |-> NoDoc]

SubscribeIdle ==
  /\ store = <<>>
  /\ subCall = NoSubCall
  /\ today = 0
  /\ inFlight = [c \in Callers |-> NoFrame]
  /\ issued = 0

\* subscribe(dto); repoThrows: the repository call of the path taken rejects
SubscribeCall(d, repoThrows) ==
  /\ ~subCall.called
  /\ IF d.deviceType \notin DeviceType
     THEN /\ subCall' = SubCall(d, FALSE, 0, 400)
          /\ store' = store
     ELSE LET existing == Existing(store, d)
              subscription == NewSubscription(Len(store) + 1, d, today)
              invalid == validateSubscription(subscription)
          IN IF repoThrows
             THEN /\ subCall' = SubCall(d, FALSE, existing, 500)
                  /\ store' = store
             ELSE IF existing # 0
             THEN /\ subCall' = SubCall(d, TRUE, existing, 201)
                  /\ store' = [store EXCEPT ![existing] = updateLastUsed(activate(@), today)]
             ELSE IF invalid # 0
             THEN /\ subCall' = SubCall(d, FALSE, 0, invalid)
                  /\ store' = store
             ELSE /\ subCall' = SubCall(d, TRUE, 0, 201)
                  /\ store' = Append(store, subscription)
  /\ UNCHANGED <<today, inFlight, issued>>

\* the promise of subscribe settles at the caller
SubscribeReturn ==
  /\ subCall.called
  /\ subCall' = NoSubCall
  /\ UNCHANGED <<store, today, inFlight, issued>>

\* deactivateSubscription(id): updateOne({_id}, {$set: {isActive: false}})
DeactivateSubscription(k) ==
  /\ ~subCall.called
  /\ k \in 1..Len(store)
  /\ store' = [store EXCEPT ![k] = deactivate(@)]
  /\ UNCHANGED <<subCall, today, inFlight, issued>>

\* the worker applies a failed delivery to an active subscription and
\* updates its document
ApplyFailure(k) ==
  /\ ~subCall.called
  /\ k \in 1..Len(store)
  /\ store[k].isActive
  /\ store' = [store EXCEPT ![k] = recordFailure(@)]
  /\ UNCHANGED <<subCall, today, inFlight, issued>>

\* replaceOne({_id: subscription.id}, doc) (lines 362-388): a document that
\* is no longer stored is not inserted
replaceOne(docs, subscription) ==
  [k \in 1..Len(docs) |-> IF docs[k].id = subscription.id THEN subscription ELSE docs[k]]

\* deleteOne({_id: id}) (lines 400-408)
deleteById(docs, id) == SelectSeq(docs, LAMBDA r : r.id # id)

\* findOne({_id: id}): the position of the document, 0 for null
findById(docs, id) == FirstOf({k \in 1..Len(docs) : docs[k].id = id})

\* subscribe(dto) up to the end of its lookup (part_002 lines 13-24): the
\* caller holds the entity that findByEndpoint / findByFCMToken returned
SubscribeFind(c, d) ==
  /\ ~subCall.called
  /\ inFlight[c].pc = "idle"
  /\ IF d.deviceType \notin DeviceType
     THEN /\ subCall' = SubCall(d, FALSE, 0, 400)
          /\ inFlight' = inFlight
     ELSE LET k == Existing(store, d)
          IN /\ inFlight' = [inFlight EXCEPT ![c] =
                  [pc |-> "found", dto |-> d, found |-> k # 0,
                   entity |-> IF k # 0 THEN store[k] ELSE NoDoc]]
             /\ subCall' = subCall
  /\ UNCHANGED <<store, today, issued>>

\* the rest of subscribe(dto) (lines 26-47): update of the entity found, or
\* a new entity, validated and inserted; subCall.existing is the id of the
\* document the call was matched with
SubscribeWrite(c, repoThrows) ==
  /\ ~subCall.called
  /\ inFlight[c].pc = "found"
  /\ inFlight' = [inFlight EXCEPT ![c] = NoFrame]
  /\ LET d == inFlight[c].dto
         existing == inFlight[c].entity
         subscription == NewSubscription(issued + 1, d, today)
     IN IF inFlight[c].found
        THEN /\ issued' = issued
             /\ IF repoThrows
                THEN /\ subCall' = SubCall(d, FALSE, existing.id, 500)
                     /\ store' = store
                ELSE /\ subCall' = SubCall(d, TRUE, existing.id, 201)
                     /\ store' = replaceOne(store, updateLastUsed(activate(existing), today))
        ELSE /\ issued' = issued + 1
             /\ IF validateSubscription(subscription) # 0
                THEN /\ subCall' = SubCall(d, FALSE, 0, validateSubscription(subscription))
                     /\ store' = store
                ELSE IF repoThrows
                THEN /\ subCall' = SubCall(d, FALSE, 0, 500)
                     /\ store' = store
                ELSE /\ subCall' = SubCall(d, TRUE, 0, 201)
                     /\ store' = Append(store, subscription)
  /\ UNCHANGED today

\* unsubscribe(subscriptionId, userId) (lines 56-75); the record of the call
\* carries no device type
Unsubscribe(subscriptionId, userId) ==
  /\ ~subCall.called
  /\ LET k == findById(store, subscriptionId)
         d == [NoDto EXCEPT !.userId = userId]
     IN IF k = 0
        THEN /\ subCall' = SubCall(d, FALSE, subscriptionId, 404)
             /\ store' = store
        ELSE IF store[k].userId # userId
        THEN /\ subCall' = SubCall(d, FALSE, subscriptionId, 403)
             /\ store' = store
        ELSE /\ subCall' = SubCall(d, TRUE, subscriptionId, 200)
             /\ store' = deleteById(store, subscriptionId)
  /\ UNCHANGED <<today, inFlight, issued>>

\* a day passes
NextDay(last) ==
  /\ ~subCall.called
  /\ today < last
  /\ today' = today + 1
  /\ UNCHANGED <<store, subCall, inFlight, issued>>

\* ------------------------------------------------------------------------
\* MarkAsRead (MarkAsRead.ts 7-44)
\* ------------------------------------------------------------------------
NoteIds == {1, 2, 3}

Readers == {"u1", "u2"}

NoNote == [present |-> FALSE, userId |-> "", isRead |-> FALSE]

Note(userId, isRead) == [present |-> TRUE, userId |-> userId, isRead |-> isRead]

EmptyInbox == [n \in NoteIds |-> NoNote]

NoExecute ==
  [called |-> FALSE, notificationId |-> 0, userId |-> "", findThrows |-> FALSE,
   statusCode |-> 0, wrote |-> FALSE, before |-> EmptyInbox]

IdleMany == [pc |-> "idle", notificationIds |-> <<>>, userId |-> "", i |-> 1, statusCode |-> 0]

MarkIdle == inbox = EmptyInbox /\ lastExecute = NoExecute /\ manyCall = IdleMany

\* execute(notificationId, userId): the status of the AppError thrown, 0 when
\* the call returns; findThrows / writeThrows: the repository call rejects
ExecuteStatus(docs, notificationId, userId, findThrows, writeThrows) ==
  IF findThrows THEN 500
  ELSE IF ~docs[notificationId].present THEN 404
  ELSE IF docs[notificationId].userId # userId THEN 403
  ELSE IF docs[notificationId].isRead THEN 0
  ELSE IF writeThrows THEN 500
  ELSE 0

\* an execute that writes without comparing the recipient
ReachesWriteAnyOwner(docs, notificationId, userId, findThrows) ==
  /\ ~findThrows
  /\ docs[notificationId].present
  /\ ~docs[notificationId].isRead

\* whether execute reaches notificationRepository.markAsRead (line 24)
ReachesWrite(docs, notificationId, userId, findThrows) ==
  /\ ~findThrows
  /\ docs[notificationId].present
  /\ docs[notificationId].userId = userId
  /\ ~docs[notificationId].isRead

\* updateOne({_id}, {$set: {isRead: true, readAt}})
markAsRead(docs, notificationId) ==
  IF docs[notificationId].present
  THEN [docs EXCEPT ![notificationId] = [@ EXCEPT !.isRead = TRUE]]
  ELSE docs

\* the effect of one execute call on the collection and on lastExecute
ExecuteEffect(notificationId, userId, findThrows, writeThrows) ==
  LET reaches == ReachesWrite(inbox, notificationId, userId, findThrows)
  IN /\ lastExecute' =
          [called |-> TRUE, notificationId |-> notificationId, userId |-> userId,
           findThrows |-> findThrows,
           statusCode |-> ExecuteStatus(inbox, notificationId, userId, findThrows, writeThrows),
           wrote |-> reaches, before |-> inbox]
     /\ inbox' = IF reaches /\ ~writeThrows THEN markAsRead(inbox, notificationId)
                 ELSE inbox

\* PATCH /notifications/:id/read -> markAsRead.execute(id, userId)
Execute(notificationId, userId, findThrows, writeThrows) ==
  /\ ExecuteEffect(notificationId, userId, findThrows, writeThrows)
  /\ UNCHANGED manyCall

ExecuteManyStart(notificationIds, userId) ==
  /\ manyCall.pc = "idle"
  /\ manyCall' = [pc |-> "loop", notificationIds |-> notificationIds, userId |-> userId,
                  i |-> 1, statusCode |-> 0]
  /\ UNCHANGED <<inbox, lastExecute>>

\* one pass of the for loop (lines 35-37): await this.execute(id, userId);
\* what it throws leaves the loop through the catch (38-43)
ExecuteManyIter(findThrows, writeThrows) ==
  /\ manyCall.pc = "loop"
  /\ manyCall.i <= Len(manyCall.notificationIds)
  /\ LET id == manyCall.notificationIds[manyCall.i]
         status == ExecuteStatus(inbox, id, manyCall.userId, findThrows, writeThrows)
     IN /\ ExecuteEffect(id, manyCall.userId, findThrows, writeThrows)
        /\ manyCall' = IF status # 0
                       THEN [manyCall EXCEPT !.pc = "done", !.statusCode = status]
                       ELSE [manyCall EXCEPT !.i = @ + 1]

ExecuteManyReturn ==
  /\ manyCall.pc = "loop"
  /\ manyCall.i > Len(manyCall.notificationIds)
  /\ manyCall' = [manyCall EXCEPT !.pc = "done"]
  /\ UNCHANGED <<inbox, lastExecute>>

\* ------------------------------------------------------------------------
\* sendBatch of the two providers on any list (WebPushProvider.ts 80-111,
\* FCMProvider.ts 115-207). An element is a subscription with, as raw, what
\* the push service answers for its endpoint/token.
\* ------------------------------------------------------------------------
\* WebPushProvider.send threw before contacting the push service (31-37)
WebRefusal(sub) ==
  [id |-> sub.id, ok |-> FALSE, raw |-> "NONE",
   error |-> IF ~isWebPush(sub) THEN "Subscription is not a Web Push subscription"
             ELSE "Subscription is not active"]

\* subscriptions.map(async subscription => send ... push): one entry per
\* element
WebSendBatchOn(subscriptions) ==
  [k \in 1..Len(subscriptions) |->
     LET sub == subscriptions[k]
     IN IF ~isWebPush(sub) \/ ~sub.isActive THEN WebRefusal(sub)
        ELSE WebResult(sub.id, sub.raw)]

\* tokens = subscriptions.filter(isFCM && isActive).map(fcmToken);
\* responses[index] is the answer for tokens[index] and is filed under
\* subscriptions[index].id
FCMSendBatchOn(subscriptions, batchThrows) ==
  LET tokens == SelectSeq(subscriptions, LAMBDA sub : isFCM(sub) /\ sub.isActive)
  IN IF Len(tokens) = 0 THEN <<>>
     ELSE IF batchThrows
     THEN [k \in 1..Len(subscriptions) |-> FCMBatchError(subscriptions[k].id)]
     ELSE [index \in 1..Len(tokens) |->
             FCMResult(subscriptions[index].id, tokens[index].raw)]

NoBatchResult == [called |-> FALSE, provider |-> "", threw |-> FALSE, entries |-> <<>>]

ProviderIdle == batch = <<>> /\ batchResult = NoBatchResult

WebSendBatchCall ==
  /\ batchResult' = [called |-> TRUE, provider |-> "web", threw |-> FALSE,
                     entries |-> WebSendBatchOn(batch)]
  /\ UNCHANGED batch

\* batchThrows: sendEachForMulticast rejects, which it does not do when
\* every token is answered
FCMSendBatchCall(batchThrows) ==
  /\ batchThrows => \A k \in 1..Len(batch) : batch[k].raw # "OK"
  /\ batchResult' = [called |-> TRUE, provider |-> "fcm", threw |-> batchThrows,
                     entries |-> FCMSendBatchOn(batch, batchThrows)]
  /\ UNCHANGED batch

\* ------------------------------------------------------------------------
\* SocketIOHandler events (SocketIOHandler.ts 52-132) with QueryNotifications
\* (QueryNotifications.ts 12-82), MarkAsRead and the notifications
\* collection (NotificationDomainService.ts 628-752)
\* ------------------------------------------------------------------------
\* limit || 20 (QueryNotifications.ts 18 and 58, SocketIOHandler.ts 62)
DefaultLimit == 20

\* a stored unread document; createdAt grows with the position
Doc(id, userId, priority, expiresAt) ==
  [id |-> id, userId |-> userId, isRead |-> FALSE, readAt |-> AbsentDate,
   priority |-> priority, createdAt |-> id, expiresAt |-> expiresAt]

\* the order of the stored priority values: the enum stores the strings
\* 'HIGH' < 'LOW' < 'NORMAL' < 'URGENT'
StoredRank(priority) ==
  CASE priority = "HIGH" -> 1
    [] priority = "LOW" -> 2
    [] priority = "NORMAL" -> 3
    [] priority = "URGENT" -> 4

\* sort({priority: -1, createdAt: -1}): a comes before b
byStoredPriority(a, b) ==
  \/ StoredRank(a.priority) > StoredRank(b.priority)
  \/ a.priority = b.priority /\ a.createdAt > b.createdAt

\* sort({createdAt: -1}) (line 660)
byCreatedAt(a, b) == a.createdAt > b.createdAt

\* the documents of D in cursor order
RECURSIVE Cursor(_, _)
Cursor(D, byPriority) ==
  IF D = {} THEN <<>>
  ELSE LET first == CHOOSE d \in D :
                      \A e \in D \ {d} : IF byPriority THEN byStoredPriority(d, e)
                                         ELSE byCreatedAt(d, e)
       IN <<first>> \o Cursor(D \ {first}, byPriority)

\* cursor.limit(limit)
Limit(cursor, limit) == SubSeq(cursor, 1, Min(limit, Len(cursor)))

Documents(docs) == {docs[k] : k \in 1..Len(docs)}

\* find({userId, isRead: false}).sort({priority: -1, createdAt: -1}).limit(limit)
findUnreadByUserId(docs, userId, limit) ==
  Limit(Cursor({d \in Documents(docs) : d.userId = userId /\ ~d.isRead}, TRUE), limit)

\* find({userId}).sort({createdAt: -1}).skip(0).limit(limit), no filters
findByUserId(docs, userId, limit) ==
  Limit(Cursor({d \in Documents(docs) : d.userId = userId}, FALSE), limit)

\* countDocuments({userId, isRead: false})
countUnread(docs, userId) ==
  Cardinality({d \in Documents(docs) : d.userId = userId /\ ~d.isRead})

\* QueryNotifications.getUnread(userId, limit); limit 0 stands for undefined
getUnread(docs, userId, limit, now) ==
  sortByPriority(
    filterExpired(
      findUnreadByUserId(docs, userId, IF limit = 0 THEN DefaultLimit ELSE limit), now))

\* QueryNotifications.execute({userId, limit, skip: 0}).notifications
queryNotifications(docs, userId, limit, now) ==
  filterExpired(findByUserId(docs, userId, IF limit = 0 THEN DefaultLimit ELSE limit), now)

\* a lookup that answers for a socket that is not registered
getUserBySocketOrFirst(m, socketId) ==
  IF m.socketUsers[socketId] # NoUser THEN m.socketUsers[socketId] ELSE "u1"

\* webSocketManager.getUserBySocket (WebSocketManager.ts 70-72)
getUserBySocket(m, socketId) == m.socketUsers[socketId]

\* updateOne({_id}, {$set: {isRead: true, readAt: new Date()}}) (672-683)
markAsReadAt(docs, id, now) ==
  [k \in 1..Len(docs) |->
     IF docs[k].id = id THEN [docs[k] EXCEPT !.isRead = TRUE, !.readAt = Given(now)]
     ELSE docs[k]]

\* markAsRead.executeMany(ids, userId) on documents findUnreadByUserId just
\* returned: every execute finds its document unread and the recipient's own
RECURSIVE markAllAt(_, _, _)
markAllAt(docs, ids, now) ==
  IF ids = <<>> THEN docs
  ELSE markAllAt(markAsReadAt(docs, Head(ids), now), Tail(ids), now)

IdsOf(list) == [k \in 1..Len(list) |-> list[k].id]

HandlerSockets == {"s1", "s2"}

NoPending == [pc |-> "idle", notificationId |-> 0, userId |-> NoUser]

NoEvent ==
  [socket |-> "", event |-> "", lookup |-> NoUser, emitted |-> "", count |-> 0,
   accessed |-> {}, limit |-> 0, result |-> <<>>, unreadLeft |-> 0]

HandlerIdle ==
  /\ collection = <<>>
  /\ instant = 1
  /\ pending = [x \in Sockets |-> NoPending]
  /\ lastEvent = NoEvent

NotAuthenticated(x, event) ==
  [NoEvent EXCEPT !.socket = x, !.event = event, !.emitted = "error: Not authenticated"]

\* socket.on('get_notifications') with data.limit (0: absent); rejects: a
\* repository call rejects
OnGetNotifications(x, limit, rejects) ==
  /\ socketState[x] = "open"
  /\ LET userId == getUserBySocket(manager, x)
     IN lastEvent' =
          IF userId = NoUser THEN NotAuthenticated(x, "get_notifications")
          ELSE [NoEvent EXCEPT
                  !.socket = x, !.event = "get_notifications", !.lookup = userId,
                  !.accessed = {userId}, !.limit = limit,
                  !.emitted = IF rejects THEN "error" ELSE "notifications",
                  !.result = IF rejects THEN <<>>
                             ELSE IdsOf(queryNotifications(collection, userId, limit, instant)),
                  !.count = IF rejects THEN 0 ELSE countUnread(collection, userId)]
  /\ UNCHANGED <<collection, instant, pending>>

\* socket.on('get_unread')
OnGetUnread(x, rejects) ==
  /\ socketState[x] = "open"
  /\ LET userId == getUserBySocket(manager, x)
     IN lastEvent' =
          IF userId = NoUser THEN NotAuthenticated(x, "get_unread")
          ELSE [NoEvent EXCEPT
                  !.socket = x, !.event = "get_unread", !.lookup = userId,
                  !.accessed = {userId},
                  !.emitted = IF rejects THEN "error" ELSE "unread_notifications",
                  !.result = IF rejects THEN <<>>
                             ELSE IdsOf(getUnread(collection, userId, 0, instant))]
  /\ UNCHANGED <<collection, instant, pending>>

\* GET /notifications/unread/:userId?limit (routes.ts 85-89)
GetUnread(userId, limit) ==
  /\ lastEvent' = [NoEvent EXCEPT
                     !.event = "GET unread", !.lookup = userId, !.accessed = {userId},
                     !.limit = limit,
                     !.result = IdsOf(getUnread(collection, userId, limit, instant))]
  /\ UNCHANGED <<collection, instant, pending>>

\* socket.on('mark_as_read') up to the write: MarkAsRead.execute lines 9-23
OnMarkAsRead(x, notificationId) ==
  /\ socketState[x] = "open"
  /\ pending[x].pc = "idle"
  /\ LET userId == getUserBySocket(manager, x)
         found == notificationId \in 1..Len(collection)
         started == [NoEvent EXCEPT !.socket = x, !.event = "mark_as_read",
                                    !.lookup = userId, !.accessed = {userId}]
     IN IF userId = NoUser
        THEN /\ lastEvent' = NotAuthenticated(x, "mark_as_read")
             /\ pending' = pending
        ELSE IF ~found
        THEN /\ lastEvent' = [started EXCEPT !.emitted = "error: Notification not found"]
             /\ pending' = pending
        ELSE IF collection[notificationId].userId # userId
        THEN /\ lastEvent' = [started EXCEPT !.emitted = "error: Unauthorized"]
             /\ pending' = pending
        ELSE IF collection[notificationId].isRead
        THEN /\ lastEvent' = [started EXCEPT !.emitted = "marked_as_read",
                                             !.count = countUnread(collection, userId)]
             /\ pending' = pending
        ELSE /\ lastEvent' = started
             /\ pending' = [pending EXCEPT ![x] =
                  [pc |-> "write", notificationId |-> notificationId, userId |-> userId]]
  /\ UNCHANGED <<collection, instant>>

\* the rest of the mark_as_read handler: MarkAsRead.execute line 24, then
\* getUnreadCount and the two emissions (SocketIOHandler.ts 102-105)
MarkAsReadWrite(x) ==
  /\ pending[x].pc = "write"
  /\ collection' = markAsReadAt(collection, pending[x].notificationId, instant)
  /\ pending' = [pending EXCEPT ![x] = NoPending]
  /\ lastEvent' = [NoEvent EXCEPT
                     !.socket = x, !.event = "mark_as_read", !.lookup = pending[x].userId,
                     !.accessed = {pending[x].userId}, !.emitted = "marked_as_read",
                     !.count = countUnread(collection', pending[x].userId)]
  /\ UNCHANGED instant

\* socket.on('mark_all_as_read'); rejects: a repository call rejects before
\* anything is written
OnMarkAllAsRead(x, rejects) ==
  /\ socketState[x] = "open"
  /\ LET userId == getUserBySocket(manager, x)
         unread == getUnread(collection, userId, 0, instant)
         ids == IdsOf(unread)
     IN IF userId = NoUser
        THEN /\ lastEvent' = NotAuthenticated(x, "mark_all_as_read")
             /\ collection' = collection
        ELSE IF rejects
        THEN /\ lastEvent' = [NoEvent EXCEPT
                                !.socket = x, !.event = "mark_all_as_read",
                                !.lookup = userId, !.accessed = {userId},
                                !.emitted = "error",
                                !.unreadLeft = countUnread(collection, userId)]
             /\ collection' = collection
        ELSE /\ collection' = markAllAt(collection, ids, instant)
             /\ lastEvent' = [NoEvent EXCEPT
                                !.socket = x, !.event = "mark_all_as_read",
                                !.lookup = userId, !.accessed = {userId},
                                !.emitted = "all_marked_as_read", !.count = 0,
                                !.result = ids,
                                !.unreadLeft = countUnread(collection', userId)]
  /\ UNCHANGED <<instant, pending>>

\* the handler has emitted and returned
Return ==
  /\ lastEvent # NoEvent
  /\ lastEvent' = NoEvent
  /\ UNCHANGED <<collection, instant, pending>>

\* time passes
Advance(last) ==
  /\ instant < last
  /\ instant' = instant + 1
  /\ UNCHANGED <<collection, pending, lastEvent>>

\* ------------------------------------------------------------------------
\* Specifications
\* ------------------------------------------------------------------------
DecideIdle ==
  /\ preferences = getDefaultPreferences
  /\ quietHours = getDefaultQuietHours
  /\ clock = HHMM(0, 0)
  /\ serverZone = "UTC"
  /\ lastDecision = NoDecision

EmptyDto ==
  [userIds |-> <<>>, channels |-> Absent, title |-> ValidTitle,
   message |-> ValidMessage, actions |-> 0, expiresAt |-> AbsentDate]

DispatchIdle ==
  /\ prefsRepo = [u \in UserIds |-> NoRecord]
  /\ saveThrows = [u \in UserIds |-> FALSE]
  /\ dto = EmptyDto
  /\ notifications = {}
  /\ nextId = 1
  /\ call = IdleCall
  /\ execResult = NoResult
  /\ bcall = IdleBatched
  /\ created = NotCreated

PushInit ==
  /\ subs = [s \in SubIds |-> NoSub]
  /\ jobs = [j \in JobIds |-> NoJob]
  /\ streak = [s \in SubIds |-> 0]
  /\ goneSeen = [s \in SubIds |-> FALSE]
  /\ delivered = [j \in JobIds |-> [s \in SubIds |-> 0]]

\* the collaborators' behaviour towards each recipient; no preferences
\* record is stored under the empty id
Collaborators(ids) ==
  /\ prefsRepo \in [UserIds -> LookupOutcomes]
  /\ saveThrows \in [UserIds -> BOOLEAN]
  /\ \A u \in UserIds \ ids : prefsRepo[u] = NoRecord /\ ~saveThrows[u]
  /\ prefsRepo[""].kind # "found"

\* ---- decisions ----
DecideSpecInit == DecideInit /\ DispatchIdle /\ PushInit /\ WsInit /\ ValidateIdle /\ ListIdle /\ SubscribeIdle /\ MarkIdle /\ ProviderIdle /\ HandlerIdle

DecideSpecNext ==
  \/ \E t \in NotificationType, k \in ChannelKeys, e \in BOOLEAN :
       updatePreference(t, k, e) /\ UNCHANGED <<dispatchVars, pushVars, wsVars, validateVars, listVars, subscribeVars, markVars, providerVars, handlerVars>>
  \/ \E p \in QuietHoursPartials :
       updateQuietHours(p) /\ UNCHANGED <<dispatchVars, pushVars, wsVars, validateVars, listVars, subscribeVars, markVars, providerVars, handlerVars>>
  \/ Tick /\ UNCHANGED <<dispatchVars, pushVars, wsVars, validateVars, listVars, subscribeVars, markVars, providerVars, handlerVars>>
  \/ \E p \in NotificationPriority, t \in NotificationType, c \in NotificationChannel :
       ShouldSendToUser(p, t, c) /\ UNCHANGED <<dispatchVars, pushVars, wsVars, validateVars, listVars, subscribeVars, markVars, providerVars, handlerVars>>

DecideSpec == DecideSpecInit /\ [][DecideSpecNext]_vars

\* ---- quiet-hours evaluation over a finer grid of times and zones ----
FineGrid ==
  {HHMM(h, 0) : h \in {0, 3, 6, 8, 9, 12, 15, 18, 21, 22, 23}}
    \cup {HHMM(8, 30), HHMM(22, 30)}

\* IANA zones and their offset from UTC in hours (no daylight saving)
Zones == {"America/Mexico_City", "UTC", "Asia/Tokyo"}

UtcOffset(zone) ==
  CASE zone = "America/Mexico_City" -> -6
    [] zone = "Asia/Tokyo" -> 9
    [] OTHER -> 0

FinePartials ==
  [enabled : BOOLEAN] \cup [startTime : FineGrid] \cup [endTime : FineGrid]
    \cup [timezone : Zones]

QuietSpecInit ==
  /\ preferences = getDefaultPreferences
  /\ quietHours = getDefaultQuietHours
  /\ clock = HHMM(0, 0)
  /\ serverZone \in Zones
  /\ lastDecision = NoDecision
  /\ DispatchIdle /\ PushInit /\ WsInit /\ ValidateIdle /\ ListIdle /\ SubscribeIdle /\ MarkIdle /\ ProviderIdle /\ HandlerIdle

QuietSpecNext ==
  \/ \E t \in FineGrid : TickTo(t) /\ UNCHANGED <<dispatchVars, pushVars, wsVars, validateVars, listVars, subscribeVars, markVars, providerVars, handlerVars>>
  \/ \E p \in FinePartials :
       updateQuietHours(p) /\ UNCHANGED <<dispatchVars, pushVars, wsVars, validateVars, listVars, subscribeVars, markVars, providerVars, handlerVars>>

QuietSpec == QuietSpecInit /\ [][QuietSpecNext]_vars

BulkInit ==
  /\ dto \in [userIds : DistinctSeqs(UserIds, MaxRecipients), channels : ChannelInputs,
              title : {ValidTitle}, message : {ValidMessage}, actions : {0},
              expiresAt : {AbsentDate}]
  /\ Collaborators(Range(dto.userIds))
  /\ notifications = {}
  /\ nextId = 1
  /\ call = IdleCall
  /\ execResult = NoResult
  /\ bcall = IdleBatched
  /\ created = NotCreated

BulkSpecInit == DecideIdle /\ BulkInit /\ PushInit /\ WsInit /\ ValidateIdle /\ ListIdle /\ SubscribeIdle /\ MarkIdle /\ ProviderIdle /\ HandlerIdle

BulkSpecNext ==
  \/ ExecuteStart /\ UNCHANGED <<decideVars, pushVars, wsVars, validateVars, listVars, subscribeVars, markVars, providerVars, handlerVars>>
  \/ ExecuteIter /\ UNCHANGED <<decideVars, pushVars, wsVars, validateVars, listVars, subscribeVars, markVars, providerVars, handlerVars>>
  \/ ExecuteReturn /\ UNCHANGED <<decideVars, pushVars, wsVars, validateVars, listVars, subscribeVars, markVars, providerVars, handlerVars>>
  \/ \E b \in 1..MaxBatchSize :
       ExecuteBatchedStart(b) /\ UNCHANGED <<decideVars, pushVars, wsVars, validateVars, listVars, subscribeVars, markVars, providerVars, handlerVars>>
  \/ ExecuteBatchedIter /\ UNCHANGED <<decideVars, pushVars, wsVars, validateVars, listVars, subscribeVars, markVars, providerVars, handlerVars>>
  \/ ExecuteBatchedReturn /\ UNCHANGED <<decideVars, pushVars, wsVars, validateVars, listVars, subscribeVars, markVars, providerVars, handlerVars>>

BulkSpec == BulkSpecInit /\ [][BulkSpecNext]_vars

\* executeBatched alone, called with any integer batchSize from
\* -MaxNegativeBatch to MaxBatchSize
MaxNegativeBatch == 1

BatchSpecNext ==
  \/ \E b \in -MaxNegativeBatch..MaxBatchSize :
       ExecuteBatchedStart(b) /\ UNCHANGED <<decideVars, pushVars, wsVars, validateVars, listVars, subscribeVars, markVars, providerVars, handlerVars>>
  \/ ExecuteBatchedIter /\ UNCHANGED <<decideVars, pushVars, wsVars, validateVars, listVars, subscribeVars, markVars, providerVars, handlerVars>>
  \/ ExecuteIter /\ UNCHANGED <<decideVars, pushVars, wsVars, validateVars, listVars, subscribeVars, markVars, providerVars, handlerVars>>
  \/ ExecuteReturn /\ UNCHANGED <<decideVars, pushVars, wsVars, validateVars, listVars, subscribeVars, markVars, providerVars, handlerVars>>
  \/ ExecuteBatchedReturn /\ UNCHANGED <<decideVars, pushVars, wsVars, validateVars, listVars, subscribeVars, markVars, providerVars, handlerVars>>

BatchSpec == BulkSpecInit /\ [][BatchSpecNext]_vars /\ WF_vars(BatchSpecNext)

\* ---- single create and queue submission ----
CreateInputs ==
  [userId : UserIds, channels : ChannelInputs, title : {ValidTitle},
   message : {ValidMessage}, actions : {0}, expiresAt : {AbsentDate}]

CreateInit ==
  /\ Collaborators(UserIds)
  /\ dto = EmptyDto
  /\ notifications = {}
  /\ nextId = 1
  /\ call = IdleCall
  /\ execResult = NoResult
  /\ bcall = IdleBatched
  /\ created = NotCreated

CreateSpecInit == DecideIdle /\ CreateInit /\ PushInit /\ WsInit /\ ValidateIdle /\ ListIdle /\ SubscribeIdle /\ MarkIdle /\ ProviderIdle /\ HandlerIdle

CreateSpecNext ==
  \/ \E d \in CreateInputs : CreateNotification(d) /\ UNCHANGED <<decideVars, pushVars, wsVars, validateVars, listVars, subscribeVars, markVars, providerVars, handlerVars>>
  \/ \E n \in notifications : Enqueue(n, MaxJobs) /\ UNCHANGED <<decideVars, dispatchVars, wsVars, validateVars, listVars, subscribeVars, markVars, providerVars, handlerVars>>

CreateSpec == CreateSpecInit /\ [][CreateSpecNext]_vars

\* ---- push worker ----
NotificationInputs == [id : {1}, userId : PushUsers]

Idle == UNCHANGED <<decideVars, dispatchVars, wsVars, validateVars, listVars, subscribeVars, markVars, providerVars, handlerVars>>

SpecInit == DecideIdle /\ DispatchIdle /\ PushInit /\ WsInit /\ ValidateIdle /\ ListIdle /\ SubscribeIdle /\ MarkIdle /\ ProviderIdle /\ HandlerIdle

\* the worker with its slots running jobs side by side
Next ==
  \/ \E s \in SubIds : Subscribe(s, OwnerOf(s)) /\ Idle
  \/ \E n \in NotificationInputs : Enqueue(n, Concurrency) /\ Idle
  \/ \E j \in JobIds : ProcessJobLoad(j, Concurrency, FALSE) /\ Idle
  \/ \E j \in JobIds : WebSendBatch(j, FALSE) /\ Idle
  \/ \E j \in JobIds : FCMSendBatch(j, FALSE) /\ Idle
  \/ \E j \in JobIds : ApplyResult(j, FALSE) /\ Idle

Spec == SpecInit /\ [][Next]_vars

\* one operation on the subscriptions at a time (a job runs alone and no
\* subscribe call falls inside it), repository always available; the observer
\* of the push services' answers is attached
SerialNext ==
  \/ \E s \in SubIds : Quiet /\ Subscribe(s, OwnerOf(s)) /\ Idle
  \/ \E n \in NotificationInputs : Enqueue(n, MaxJobs) /\ Idle
  \/ \E j \in JobIds : ProcessJobLoad(j, 1, FALSE) /\ Idle
  \/ \E j \in JobIds : WebSendBatch(j, TRUE) /\ Idle
  \/ \E j \in JobIds : FCMSendBatch(j, TRUE) /\ Idle
  \/ \E j \in JobIds : ApplyResult(j, FALSE) /\ Idle

SerialSpec == SpecInit /\ [][SerialNext]_vars

\* one job in flight at a time, repository calls may reject, jobs are retried
FaultNext ==
  \/ \E s \in SubIds : Subscribe(s, OwnerOf(s)) /\ Idle
  \/ \E n \in NotificationInputs : Enqueue(n, MaxRetriedJobs) /\ Idle
  \/ \E j \in JobIds, f \in BOOLEAN : ProcessJobLoad(j, 1, f) /\ Idle
  \/ \E j \in JobIds : WebSendBatch(j, FALSE) /\ Idle
  \/ \E j \in JobIds : FCMSendBatch(j, FALSE) /\ Idle
  \/ \E j \in JobIds, f \in BOOLEAN : ApplyResult(j, f) /\ Idle

FaultSpec == SpecInit /\ [][FaultNext]_vars

\* the worker keeps running: a waiting job is taken once its backoff delay
\* has passed and a slot is free, and every awaited call of a running job
\* settles
WorkerStep ==
  \/ \E j \in JobIds, f \in BOOLEAN : ProcessJobLoad(j, 1, f) /\ Idle
  \/ \E j \in JobIds : WebSendBatch(j, FALSE) /\ Idle
  \/ \E j \in JobIds : FCMSendBatch(j, FALSE) /\ Idle
  \/ \E j \in JobIds, f \in BOOLEAN : ApplyResult(j, f) /\ Idle

\* the devices are registered before the first job is submitted
NoneSubmitted == \A j \in JobIds : jobs[j].state = "none"

RetryNext ==
  \/ \E s \in SubIds : NoneSubmitted /\ Subscribe(s, OwnerOf(s)) /\ Idle
  \/ \E n \in NotificationInputs : Enqueue(n, MaxLiveJobs) /\ Idle
  \/ \E j \in JobIds, f \in BOOLEAN : ProcessJobLoad(j, 1, f) /\ Idle
  \/ \E j \in JobIds : WebSendBatch(j, FALSE) /\ Idle
  \/ \E j \in JobIds : FCMSendBatch(j, FALSE) /\ Idle
  \/ \E j \in JobIds, f \in BOOLEAN : ApplyResult(j, f) /\ Idle

RetrySpec == SpecInit /\ [][RetryNext]_vars /\ WF_vars(WorkerStep)

\* retried jobs with the observer of the push services' answers attached
RedeliverNext ==
  \/ \E s \in SubIds : NoneSubmitted /\ Subscribe(s, OwnerOf(s)) /\ Idle
  \/ \E n \in NotificationInputs : Enqueue(n, MaxLiveJobs) /\ Idle
  \/ \E j \in JobIds, f \in BOOLEAN : ProcessJobLoad(j, 1, f) /\ Idle
  \/ \E j \in JobIds : WebSendBatch(j, TRUE) /\ Idle
  \/ \E j \in JobIds : FCMSendBatch(j, TRUE) /\ Idle
  \/ \E j \in JobIds, f \in BOOLEAN : ApplyResult(j, f) /\ Idle

RedeliverSpec == SpecInit /\ [][RedeliverNext]_vars

\* ---- both use cases on the same collaborators ----
\* the bulk payload addressed to one of its recipients
SamePayload == {d \in CreateInputs : d.channels = dto.channels /\ d.userId \in Range(dto.userIds)}

ResolveSpecInit == DecideIdle /\ BulkInit /\ PushInit /\ WsInit /\ ValidateIdle /\ ListIdle /\ SubscribeIdle /\ MarkIdle /\ ProviderIdle /\ HandlerIdle

ResolveSpecNext ==
  \/ ExecuteStart /\ UNCHANGED <<decideVars, pushVars, wsVars, validateVars, listVars, subscribeVars, markVars, providerVars, handlerVars>>
  \/ ExecuteIter /\ UNCHANGED <<decideVars, pushVars, wsVars, validateVars, listVars, subscribeVars, markVars, providerVars, handlerVars>>
  \/ ExecuteReturn /\ UNCHANGED <<decideVars, pushVars, wsVars, validateVars, listVars, subscribeVars, markVars, providerVars, handlerVars>>
  \/ \E d \in SamePayload : CreateNotification(d) /\ UNCHANGED <<decideVars, pushVars, wsVars, validateVars, listVars, subscribeVars, markVars, providerVars, handlerVars>>

ResolveSpec == ResolveSpecInit /\ [][ResolveSpecNext]_vars

\* ---- presence and real-time dispatch ----
PresenceSpecInit == DecideIdle /\ DispatchIdle /\ PushInit /\ WsInit /\ ValidateIdle /\ ListIdle /\ SubscribeIdle /\ MarkIdle /\ ProviderIdle /\ HandlerIdle

PresenceSpecNext ==
  \/ \E x \in Sockets :
       HandleConnection(x) /\ UNCHANGED <<decideVars, dispatchVars, pushVars, validateVars, listVars, subscribeVars, markVars, providerVars, handlerVars>>
  \/ \E x \in Sockets : Disconnect(x) /\ UNCHANGED <<decideVars, dispatchVars, pushVars, validateVars, listVars, subscribeVars, markVars, providerVars, handlerVars>>
  \/ \E x \in Sockets, u \in WsUsers \cup {""}, f \in BOOLEAN :
       Authenticate(x, u, f) /\ UNCHANGED <<decideVars, dispatchVars, pushVars, validateVars, listVars, subscribeVars, markVars, providerVars, handlerVars>>
  \/ \E u \in WsUsers :
       SendNotificationToUser(u) /\ UNCHANGED <<decideVars, dispatchVars, pushVars, validateVars, listVars, subscribeVars, markVars, providerVars, handlerVars>>

PresenceSpec == PresenceSpecInit /\ [][PresenceSpecNext]_vars

\* ---- validateNotification over a set of entities ----
Titles == {Str(0, FALSE), Str(3, TRUE), Str(1, FALSE), Str(100, FALSE), Str(101, FALSE)}

Messages == {Str(0, FALSE), Str(2, TRUE), Str(500, FALSE), Str(501, FALSE)}

Entities ==
  [id : {1}, userId : {"u1", "", " "}, title : Titles, message : Messages,
   channels : {<<>>, <<"IN_APP">>}, actions : {0, 3, 4},
   expiresAt : {AbsentDate, Given(Now - 1), Given(Now), Given(Now + 1)}]

ValidateSpecInit ==
  /\ DecideIdle /\ DispatchIdle /\ PushInit /\ WsInit /\ ListIdle /\ SubscribeIdle /\ MarkIdle /\ ProviderIdle /\ HandlerIdle
  /\ candidate \in Entities
  /\ validation = NotValidated

ValidateSpecNext ==
  ValidateNotification /\ UNCHANGED <<decideVars, dispatchVars, pushVars, wsVars, listVars, subscribeVars, markVars, providerVars, handlerVars>>

ValidateSpec == ValidateSpecInit /\ [][ValidateSpecNext]_vars

\* ---- sendBatch on lists of any subscriptions ----
MaxBatch == 3

BatchLists ==
  UNION {{l \in [1..n -> [id : 1..n, deviceType : {"WEB", "ANDROID"},
                           isActive : BOOLEAN, raw : RawOutcomes]] :
            \A k \in 1..n : l[k].id = k} : n \in 0..MaxBatch}

ProviderSpecInit ==
  /\ DecideIdle /\ DispatchIdle /\ PushInit /\ WsInit /\ ValidateIdle /\ ListIdle
  /\ SubscribeIdle /\ MarkIdle /\ HandlerIdle
  /\ batch \in BatchLists
  /\ batchResult = NoBatchResult

ProviderSpecNext ==
  \/ WebSendBatchCall /\ UNCHANGED <<decideVars, dispatchVars, pushVars, wsVars, validateVars, listVars, subscribeVars, markVars, handlerVars>>
  \/ \E f \in BOOLEAN :
       FCMSendBatchCall(f) /\ UNCHANGED <<decideVars, dispatchVars, pushVars, wsVars, validateVars, listVars, subscribeVars, markVars, handlerVars>>

ProviderSpec == ProviderSpecInit /\ [][ProviderSpecNext]_vars

\* ---- mark as read, one id and many ----
MaxIds == 3

\* the collection holds notifications of both recipients, read and unread
Inboxes ==
  [NoteIds -> {NoNote, Note("u1", FALSE), Note("u1", TRUE), Note("u2", FALSE)}]

MarkSpecInit ==
  /\ DecideIdle /\ DispatchIdle /\ PushInit /\ WsInit /\ ValidateIdle /\ ListIdle
  /\ SubscribeIdle
  /\ ProviderIdle /\ HandlerIdle
  /\ inbox \in Inboxes
  /\ lastExecute = [NoExecute EXCEPT !.before = inbox]
  /\ manyCall = IdleMany

MarkSpecNext ==
  \/ \E n \in NoteIds, u \in Readers, f, w \in BOOLEAN :
       Execute(n, u, f, w) /\ UNCHANGED <<decideVars, dispatchVars, pushVars, wsVars, validateVars, listVars, subscribeVars, providerVars, handlerVars>>
  \/ \E l \in DistinctSeqs(NoteIds, MaxIds), u \in Readers :
       ExecuteManyStart(l, u) /\ UNCHANGED <<decideVars, dispatchVars, pushVars, wsVars, validateVars, listVars, subscribeVars, providerVars, handlerVars>>
  \/ \E f, w \in BOOLEAN :
       ExecuteManyIter(f, w) /\ UNCHANGED <<decideVars, dispatchVars, pushVars, wsVars, validateVars, listVars, subscribeVars, providerVars, handlerVars>>
  \/ ExecuteManyReturn /\ UNCHANGED <<decideVars, dispatchVars, pushVars, wsVars, validateVars, listVars, subscribeVars, providerVars, handlerVars>>

MarkSpec == MarkSpecInit /\ [][MarkSpecNext]_vars

\* ---- subscribe requests of every shape ----
MaxDay == 1

SubscriptionInputs ==
  [userId : {"u1"}, deviceType : DeviceType \cup {"TV"}, endpoint : {"", "e1"},
   keys : KeysInputs, fcmToken : {"", "t1"}]

SubscribeSpecInit ==
  /\ DecideIdle /\ DispatchIdle /\ PushInit /\ WsInit /\ ValidateIdle /\ ListIdle
  /\ SubscribeIdle /\ MarkIdle /\ ProviderIdle /\ HandlerIdle

SubscribeSpecNext ==
  \/ \E d \in SubscriptionInputs, f \in BOOLEAN :
       SubscribeCall(d, f) /\ UNCHANGED <<decideVars, dispatchVars, pushVars, wsVars, validateVars, listVars, markVars, providerVars, handlerVars>>
  \/ \E k \in 1..Len(store) :
       ApplyFailure(k) /\ UNCHANGED <<decideVars, dispatchVars, pushVars, wsVars, validateVars, listVars, markVars, providerVars, handlerVars>>
  \/ \E k \in 1..Len(store) :
       DeactivateSubscription(k) /\ UNCHANGED <<decideVars, dispatchVars, pushVars, wsVars, validateVars, listVars, markVars, providerVars, handlerVars>>
  \/ NextDay(MaxDay) /\ UNCHANGED <<decideVars, dispatchVars, pushVars, wsVars, validateVars, listVars, markVars, providerVars, handlerVars>>
  \/ SubscribeReturn /\ UNCHANGED <<decideVars, dispatchVars, pushVars, wsVars, validateVars, listVars, markVars, providerVars, handlerVars>>

SubscribeSpec == SubscribeSpecInit /\ [][SubscribeSpecNext]_vars

\* ---- concurrent subscribe calls of two recipients, and unsubscribe ----
MaxIssued == 2

\* well-formed requests for one web endpoint and one mobile token
OwnerInputs ==
  {[userId |-> u, deviceType |-> "WEB", endpoint |-> "e1", keys |-> "both", fcmToken |-> ""] :
     u \in Readers}
  \cup
  {[userId |-> u, deviceType |-> "ANDROID", endpoint |-> "", keys |-> "none", fcmToken |-> "t1"] :
     u \in Readers}

OwnerSpecInit ==
  /\ DecideIdle /\ DispatchIdle /\ PushInit /\ WsInit /\ ValidateIdle /\ ListIdle
  /\ SubscribeIdle /\ MarkIdle /\ ProviderIdle /\ HandlerIdle

OwnerSpecNext ==
  \/ \E c \in Callers, d \in OwnerInputs :
       issued < MaxIssued /\ SubscribeFind(c, d) /\ UNCHANGED <<decideVars, dispatchVars, pushVars, wsVars, validateVars, listVars, markVars, providerVars, handlerVars>>
  \/ \E c \in Callers, f \in BOOLEAN :
       SubscribeWrite(c, f) /\ UNCHANGED <<decideVars, dispatchVars, pushVars, wsVars, validateVars, listVars, markVars, providerVars, handlerVars>>
  \/ \E n \in 1..MaxIssued, u \in Readers :
       Unsubscribe(n, u) /\ UNCHANGED <<decideVars, dispatchVars, pushVars, wsVars, validateVars, listVars, markVars, providerVars, handlerVars>>
  \/ \E k \in 1..Len(store) :
       DeactivateSubscription(k) /\ UNCHANGED <<decideVars, dispatchVars, pushVars, wsVars, validateVars, listVars, markVars, providerVars, handlerVars>>
  \/ SubscribeReturn /\ UNCHANGED <<decideVars, dispatchVars, pushVars, wsVars, validateVars, listVars, markVars, providerVars, handlerVars>>

OwnerSpec == OwnerSpecInit /\ [][OwnerSpecNext]_vars

\* ---- filterExpired and sortByPriority over arrays ----
MaxList == 3

Priorities == {"LOW", "NORMAL", "HIGH", "URGENT"}

CreatedAts == {1, 2, 3}

Expiries == {AbsentDate, Given(Now - 1), Given(Now), Given(Now + 1)}

\* arrays of at most MaxList notifications; the id is the position in the
\* array as first handed over
\* notifications that differ in what sortByPriority reads, and
\* notifications that differ in what filterExpired reads
Elements(n) ==
  [id : 1..n, priority : Priorities, createdAt : CreatedAts, expiresAt : {AbsentDate}]
    \cup [id : 1..n, priority : {"NORMAL"}, createdAt : {1}, expiresAt : Expiries]

ItemLists ==
  UNION {{l \in [1..n -> Elements(n)] : \A k \in 1..n : l[k].id = k} : n \in 0..MaxList}

ListSpecInit ==
  /\ DecideIdle /\ DispatchIdle /\ PushInit /\ WsInit /\ ValidateIdle
  /\ SubscribeIdle /\ MarkIdle /\ ProviderIdle /\ HandlerIdle
  /\ items \in ItemLists
  /\ listCall = NoListCall

ListSpecNext ==
  \/ SortByPriority /\ UNCHANGED <<decideVars, dispatchVars, pushVars, wsVars, validateVars, subscribeVars, markVars, providerVars, handlerVars>>
  \/ FilterExpired /\ UNCHANGED <<decideVars, dispatchVars, pushVars, wsVars, validateVars, subscribeVars, markVars, providerVars, handlerVars>>

ListSpec == ListSpecInit /\ [][ListSpecNext]_vars

\* ---- socket events and queries on the notifications collection ----
MaxDocs == 2
MaxInstant == 2

\* documents of both recipients: HIGH and NORMAL are stored in the opposite
\* order of their weights; the NORMAL ones expire when instant 1 has passed
DocShapes(id) ==
  {Doc(id, u, pe[1], pe[2]) :
     u \in WsUsers, pe \in {<<"HIGH", AbsentDate>>, <<"NORMAL", Given(1)>>}}

\* one more unread notification than the default page holds
Backlog == [k \in 1..(DefaultLimit + 1) |-> Doc(k, "u1", "NORMAL", AbsentDate)]

\* the collections of at most n documents, and the backlog
Collections(n) ==
  {Backlog} \cup
  UNION {{l \in [1..m -> UNION {DocShapes(k) : k \in 1..m}] :
            \A k \in 1..m : l[k].id = k} : m \in 0..n}

MaxHandlerDocs == 1

HandlerSpecInit ==
  /\ DecideIdle /\ DispatchIdle /\ PushInit /\ WsInit /\ ValidateIdle /\ ListIdle
  /\ SubscribeIdle /\ MarkIdle /\ ProviderIdle
  /\ collection \in Collections(MaxHandlerDocs)
  /\ instant = 1
  /\ pending = [x \in Sockets |-> NoPending]
  /\ lastEvent = NoEvent

\* the handlers run one event at a time; a mark_as_read handler that waits
\* for its write lets other events in
Settled == lastEvent = NoEvent

HandlerSpecNext ==
  \/ \E x \in HandlerSockets :
       Settled /\ HandleConnection(x) /\ UNCHANGED <<decideVars, dispatchVars, pushVars, validateVars, listVars, subscribeVars, markVars, providerVars, handlerVars>>
  \/ \E x \in HandlerSockets, u \in WsUsers :
       Settled /\ Authenticate(x, u, FALSE) /\ UNCHANGED <<decideVars, dispatchVars, pushVars, validateVars, listVars, subscribeVars, markVars, providerVars, handlerVars>>
  \/ \E x \in HandlerSockets :
       Settled /\ Disconnect(x) /\ UNCHANGED <<decideVars, dispatchVars, pushVars, validateVars, listVars, subscribeVars, markVars, providerVars, handlerVars>>
  \/ \E x \in HandlerSockets, limit \in 0..1, f \in BOOLEAN :
       Settled /\ OnGetNotifications(x, limit, f) /\ UNCHANGED <<decideVars, dispatchVars, pushVars, wsVars, validateVars, listVars, subscribeVars, markVars, providerVars>>
  \/ \E x \in HandlerSockets, f \in BOOLEAN :
       Settled /\ OnGetUnread(x, f) /\ UNCHANGED <<decideVars, dispatchVars, pushVars, wsVars, validateVars, listVars, subscribeVars, markVars, providerVars>>
  \/ \E x \in HandlerSockets, n \in 1..(MaxHandlerDocs + 1) :
       Settled /\ OnMarkAsRead(x, n) /\ UNCHANGED <<decideVars, dispatchVars, pushVars, wsVars, validateVars, listVars, subscribeVars, markVars, providerVars>>
  \/ \E x \in HandlerSockets :
       Settled /\ MarkAsReadWrite(x) /\ UNCHANGED <<decideVars, dispatchVars, pushVars, wsVars, validateVars, listVars, subscribeVars, markVars, providerVars>>
  \/ \E x \in HandlerSockets, f \in BOOLEAN :
       Settled /\ OnMarkAllAsRead(x, f) /\ UNCHANGED <<decideVars, dispatchVars, pushVars, wsVars, validateVars, listVars, subscribeVars, markVars, providerVars>>
  \/ Settled /\ Advance(MaxInstant) /\ UNCHANGED <<decideVars, dispatchVars, pushVars, wsVars, validateVars, listVars, subscribeVars, markVars, providerVars>>
  \/ Return /\ UNCHANGED <<decideVars, dispatchVars, pushVars, wsVars, validateVars, listVars, subscribeVars, markVars, providerVars>>

HandlerSpec == HandlerSpecInit /\ [][HandlerSpecNext]_vars

\* ---- GET /notifications/unread on collections of several documents ----
QuerySpecInit ==
  /\ DecideIdle /\ DispatchIdle /\ PushInit /\ WsInit /\ ValidateIdle /\ ListIdle
  /\ SubscribeIdle /\ MarkIdle /\ ProviderIdle
  /\ collection \in Collections(MaxDocs)
  /\ instant = 1
  /\ pending = [x \in Sockets |-> NoPending]
  /\ lastEvent = NoEvent

QuerySpecNext ==
  \/ \E u \in WsUsers, limit \in 0..MaxDocs :
       GetUnread(u, limit) /\ UNCHANGED <<decideVars, dispatchVars, pushVars, wsVars, validateVars, listVars, subscribeVars, markVars, providerVars>>
  \/ Advance(MaxInstant) /\ UNCHANGED <<decideVars, dispatchVars, pushVars, wsVars, validateVars, listVars, subscribeVars, markVars, providerVars>>

QuerySpec == QuerySpecInit /\ [][QuerySpecNext]_vars

\* ------------------------------------------------------------------------
\* Claims: delivery decision (DecideSpec)
\* ------------------------------------------------------------------------

\* C1: for an URGENT notification shouldSendToUser returns the per-type /
\* per-channel enablement flag, inside the quiet-hours window as outside it.
C1_UrgentBypassesQuietHours ==
  \A t \in NotificationType, c \in NotificationChannel :
    shouldSendToUser("URGENT", t, c, preferences, quietHours, clock)
      = channelFlag(preferences[t], c)

\* ------------------------------------------------------------------------
\* Claims: bulk fan-out (BulkSpec)
\* ------------------------------------------------------------------------
Ids(entries) == [k \in 1..Len(entries) |-> entries[k].userId]

Occurrences(seq, x) == Cardinality({k \in 1..Len(seq) : seq[k] = x})

NoChannelReason == "User has disabled all channels for this type"

\* C2: with no caller-supplied channels, a recipient whose record has in-app,
\* push and real-time all disabled ends in failed with the no-eligible-channel
\* reason and gets no notification persisted.
C2_AllDisabledFails ==
  (execResult.returned /\ ~dto.channels.given) =>
    \A u \in Range(dto.userIds) :
      prefsRepo[u] = Found(AllOff) =>
        /\ [userId |-> u, error |-> NoChannelReason] \in Range(execResult.failed)
        /\ \A n \in notifications : n.userId # u

\* C3: when execute returns, every input recipient id is exactly once in
\* successful or exactly once in failed, never in both, and no other id is.
C3_ExactlyOneEntry ==
  execResult.returned =>
    /\ \A u \in Range(dto.userIds) :
         Occurrences(Ids(execResult.successful), u)
           + Occurrences(Ids(execResult.failed), u) = 1
    /\ Range(Ids(execResult.successful)) \cup Range(Ids(execResult.failed))
         \subseteq Range(dto.userIds)

C3_Witness ==
  /\ execResult.returned
  /\ Len(dto.userIds) = 3
  /\ Len(execResult.successful) > 0
  /\ Len(execResult.failed) > 1

\* what the collaborators do for recipient u alone: lookup resolves, some
\* channel is left, the notification is valid and the save resolves
OwnOutcomeOk(u) ==
  LET lookup == prefsRepo[u]
      channels == IF ~dto.channels.given /\ lookup.kind = "found"
                     /\ Len(getEnabledChannels(lookup.prefs)) > 0
                  THEN getEnabledChannels(lookup.prefs)
                  ELSE IF dto.channels.given THEN dto.channels.val ELSE <<"ALL">>
  IN /\ lookup.kind # "throw"
     /\ Len(channels) > 0
     /\ u \notin {"", " "}
     /\ ~saveThrows[u]

\* C4: a recipient is in successful exactly when its own lookup, validation
\* and save went well, whatever happened to the recipients before it; what was
\* persisted for an earlier recipient stays persisted; execute returns.
C4_FailuresIsolated ==
  /\ \A k \in 1..Len(call.successful) :
       \E n \in notifications : n.id = call.successful[k].id
  /\ execResult.returned =>
       /\ \A u \in Range(dto.userIds) :
            (u \in Range(Ids(execResult.successful))) <=> OwnOutcomeOk(u)
       /\ \A k \in 1..Len(execResult.successful) :
            \E n \in notifications :
              /\ n.id = execResult.successful[k].id
              /\ n.userId = execResult.successful[k].userId

C4_Witness ==
  /\ execResult.returned
  /\ \E k, m \in 1..Len(dto.userIds) :
       /\ k < m
       /\ ~OwnOutcomeOk(dto.userIds[k])
       /\ dto.userIds[m] \in Range(Ids(execResult.successful))

Stripped(responses) ==
  [k \in 1..Len(responses) |->
     [userId |-> responses[k].userId, channels |-> responses[k].channels]]

Stored(responses) ==
  \A k \in 1..Len(responses) :
    \E n \in notifications :
      /\ n.id = responses[k].id
      /\ n.userId = responses[k].userId
      /\ n.channels = responses[k].channels

\* C5: for batchSize >= 1 executeBatched reports the same succeeded recipients
\* (with the same channels persisted) and the same failed recipients with the
\* same reasons as execute on the whole list.
C5_BatchedEqualsExecute ==
  (execResult.returned /\ bcall.pc = "done" /\ bcall.batchSize >= 1) =>
    /\ Stripped(bcall.allSuccessful) = Stripped(execResult.successful)
    /\ bcall.allFailed = execResult.failed
    /\ Stored(bcall.allSuccessful)
    /\ Stored(execResult.successful)

C5_Witness ==
  /\ execResult.returned
  /\ bcall.pc = "done"
  /\ bcall.batchSize = 2
  /\ Len(dto.userIds) = 3
  /\ Len(bcall.allSuccessful) > 0
  /\ Len(bcall.allFailed) > 0

\* ------------------------------------------------------------------------
\* Claims: subscription health in the push worker
\* ------------------------------------------------------------------------
\* the job whose frame changes in this step is applying the head of its results
Applies(j) ==
  /\ jobs[j].state = "active"
  /\ jobs[j].pc \in {"apply-web", "apply-fcm"}
  /\ jobs'[j] # jobs[j]

C7_GoneDeactivatesAtOnce ==
  [][\A j \in JobIds :
       (Applies(j) /\ Head(jobs[j].results).raw = "GONE") =>
         LET s == Head(jobs[j].results).id
         IN /\ ~subs'[s].isActive
            /\ subs'[s].failureCount = subs[s].failureCount]_vars

\* C8: every failure other than endpoint-gone that a job records raises the
\* stored counter above what was stored before it, also when another job
\* recorded one for the same subscription meanwhile.
C8_NoLostIncrement ==
  [][\A j \in JobIds :
       (Applies(j) /\ Head(jobs[j].results).raw = "OTHER") =>
         LET s == Head(jobs[j].results).id
         IN subs'[s].failureCount > subs[s].failureCount]_vars

\* C9: when persisting one subscription's update is rejected, no other
\* subscription of the job is left with its update unpersisted.
C9_UpdateFailureIsolated ==
  [][\A j \in JobIds :
       (Applies(j) /\ jobs'[j].state \in {"waiting", "failed"}) =>
         /\ Tail(jobs[j].results) = <<>>
         /\ jobs[j].pc = "apply-web" => Len(fcmSubs(jobs[j].subscriptions)) = 0]_vars

\* ------------------------------------------------------------------------
\* Claims: single create (CreateSpec)
\* ------------------------------------------------------------------------

\* C10: once CreateNotification.execute has succeeded with PUSH or ALL among
\* the resolved channels, the queue holds a push job with that notification's
\* id and recipient.
C10_PushJobSubmitted ==
  (created.called /\ created.ok) =>
    \A n \in notifications :
      (n.id = created.id /\ shouldSendPush(n)) =>
        \E j \in JobIds :
          /\ jobs[j].state # "none"
          /\ jobs[j].notificationId = n.id
          /\ jobs[j].userId = n.userId

\* ------------------------------------------------------------------------
\* Claims: presence and real-time dispatch (PresenceSpec)
\* ------------------------------------------------------------------------

\* C11: a sendNotificationToUser call emits only to a recipient the tracker
\* reports online at that moment; for a recipient it reports offline nothing
\* is emitted and nothing is put aside (tracker, queue and repository are as
\* before).
C11_EmitOnlyWhenOnline ==
  [][lastSend' # lastSend =>
       /\ lastSend'.emitted # {} => isUserOnline(manager, lastSend'.userId)
       /\ ~isUserOnline(manager, lastSend'.userId) =>
            /\ lastSend'.emitted = {}
            /\ UNCHANGED <<manager, jobs, notifications>>]_vars

C11_Witness ==
  /\ lastSend.called
  /\ lastSend.emitted = {}
  /\ ~isUserOnline(manager, lastSend.userId)
  /\ \E u \in WsUsers : isUserOnline(manager, u)

SingleOwner == \A x \in Sockets : Cardinality(authAs[x]) <= 1

\* the connections registered for u and not removed
LiveOf(u) == {x \in Sockets : socketState[x] = "open" /\ u \in authAs[x]}

\* C12: when every connection id was registered for one recipient only,
\* isUserOnline(u) is true exactly when a connection registered for u has not
\* been removed.
C12_OnlineIffLiveConnection ==
  SingleOwner => \A u \in WsUsers : isUserOnline(manager, u) <=> LiveOf(u) # {}

C12_Witness ==
  /\ SingleOwner
  /\ \E u \in WsUsers :
       /\ isUserOnline(manager, u)
       /\ \E x \in Sockets : socketState[x] = "closed" /\ authAs[x] = {u}
  /\ \E u \in WsUsers :
       /\ ~isUserOnline(manager, u)
       /\ \E x \in Sockets : authAs[x] = {u}

\* C13: the forward relation and the reverse lookup agree, also after an id
\* was registered again under another recipient; once every connection is
\* removed nobody is online and getTotalConnections is 0.
C13_RelationsAgree ==
  /\ \A x \in Sockets, u \in WsUsers :
       x \in getUserSockets(manager, u) <=> manager.socketUsers[x] = u
  /\ (\A x \in Sockets : socketState[x] # "open") =>
       /\ \A u \in WsUsers : ~isUserOnline(manager, u)
       /\ getTotalConnections(manager) = 0

\* ------------------------------------------------------------------------
\* Claims: channel resolution in both use cases
\* ------------------------------------------------------------------------
NotificationOf(id) == CHOOSE n \in notifications : n.id = id

IsStored(id) == \E n \in notifications : n.id = id

\* C14: with a caller-supplied channel list, what CreateNotification.execute
\* and SendBulkNotifications.execute persist carries exactly that list,
\* whatever the recipient's preferences record says.
C14_CallerChannelsKept ==
  /\ (created.called /\ created.ok /\ created.request.channels.given) =>
       /\ IsStored(created.id)
       /\ NotificationOf(created.id).channels = created.request.channels.val
  /\ dto.channels.given =>
       \A k \in 1..Len(call.successful) :
         /\ IsStored(call.successful[k].id)
         /\ NotificationOf(call.successful[k].id).channels = dto.channels.val
         /\ call.successful[k].channels = dto.channels.val

C14_Witness ==
  /\ created.called /\ created.ok /\ created.request.channels.given
  /\ prefsRepo[created.request.userId] = Found(AllOff)
  /\ execResult.returned
  /\ \E k \in 1..Len(execResult.successful) :
       prefsRepo[execResult.successful[k].userId] = Found(PushOnly)

EnabledSet(typePrefs) ==
  {c \in {"IN_APP", "PUSH", "WEBSOCKET"} : channelFlag(typePrefs, c)}

\* C15: with no caller channels and a preferences record, the notification
\* CreateNotification.execute persists carries exactly the channels whose
\* flag is true for the type.
C15_OnlyEnabledChannels ==
  (/\ created.called /\ created.ok
   /\ ~created.request.channels.given
   /\ prefsRepo[created.request.userId].kind = "found") =>
    /\ IsStored(created.id)
    /\ Range(NotificationOf(created.id).channels)
         = EnabledSet(prefsRepo[created.request.userId].prefs)

\* no record, a non-empty id and a repository that saves
PlainRecipient(u) == prefsRepo[u] = NoRecord /\ u # "" /\ ~saveThrows[u]

\* C16: a recipient without a preferences record, no caller channels, valid
\* payload: the single create succeeds with the all-channels selection and
\* the bulk call reports the recipient in successful with it, whatever
\* happens to the other recipients.
C16_NoRecordAllChannels ==
  /\ (created.called /\ ~created.request.channels.given
      /\ PlainRecipient(created.request.userId)) =>
       /\ created.ok
       /\ IsStored(created.id)
       /\ NotificationOf(created.id).channels = <<"ALL">>
  /\ (execResult.returned /\ ~dto.channels.given) =>
       \A u \in Range(dto.userIds) :
         PlainRecipient(u) =>
           \E k \in 1..Len(execResult.successful) :
             /\ execResult.successful[k].userId = u
             /\ execResult.successful[k].channels = <<"ALL">>
             /\ IsStored(execResult.successful[k].id)

C16_Witness ==
  /\ created.called /\ created.ok /\ ~created.request.channels.given
  /\ PlainRecipient(created.request.userId)
  /\ execResult.returned /\ ~dto.channels.given
  /\ Len(execResult.failed) > 0
  /\ \E u \in Range(dto.userIds) : PlainRecipient(u)

\* ------------------------------------------------------------------------
\* Claims: quiet hours
\* ------------------------------------------------------------------------
Ordinary == {"LOW", "NORMAL", "HIGH"}

\* C17: for LOW, NORMAL and HIGH, shouldSendToUser is false for every channel
\* inside the enabled quiet-hours window and the enablement flag otherwise.
C17_QuietHoursSuppress ==
  \A p \in Ordinary, t \in NotificationType, c \in NotificationChannel :
    shouldSendToUser(p, t, c, preferences, quietHours, clock)
      = IF isQuietHours(quietHours, clock) THEN FALSE
        ELSE channelFlag(preferences[t], c)

C17_Witness ==
  /\ lastDecision.called
  /\ lastDecision.priority \in Ordinary
  /\ isQuietHours(quietHours, clock)
  /\ channelFlag(preferences[lastDecision.type], lastDecision.channel)
  /\ ~lastDecision.result
  /\ lastDecision.result
       = shouldSendToUser(lastDecision.priority, lastDecision.type, lastDecision.channel,
                          preferences, quietHours, clock)

InWindow(start, end, now) ==
  \/ start < end /\ start <= now /\ now < end
  \/ start >= end /\ (now >= start \/ now < end)

\* C18: in minutes of the day, isQuietHours with quiet hours enabled is true
\* iff (start < end and start <= now < end) or (start >= end and (now >= start
\* or now < end)), and false when disabled; 22:00-08:00 is quiet at 23:00 and
\* not at 09:00.
C18_WindowArithmetic ==
  /\ isQuietHours(quietHours, clock)
       <=> /\ quietHours.enabled
           /\ InWindow(quietHours.startTime.h * 60 + quietHours.startTime.m,
                       quietHours.endTime.h * 60 + quietHours.endTime.m,
                       clock.h * 60 + clock.m)
  /\ LET night == [getDefaultQuietHours EXCEPT !.enabled = TRUE]
     IN /\ isQuietHours(night, HHMM(23, 0))
        /\ ~isQuietHours(night, HHMM(9, 0))
        /\ ~isQuietHours(getDefaultQuietHours, HHMM(23, 0))

C18_Witness ==
  /\ quietHours.enabled
  /\ Minutes(quietHours.startTime) > Minutes(quietHours.endTime)
  /\ Minutes(clock) < Minutes(quietHours.endTime)
  /\ clock.m = 30
  /\ isQuietHours(quietHours, clock)

\* the time of day in `zone` when a clock in zone `at` reads t
LocalTime(t, at, zone) ==
  HHMM((t.h - UtcOffset(at) + UtcOffset(zone) + 48) % 24, t.m)

\* C19: isQuietHours answers for the time of day in the recipient's
\* configured timezone, whatever the zone of the server process.
C19_RecipientTimezone ==
  isQuietHours(quietHours, clock)
    = isQuietHours(quietHours, LocalTime(clock, serverZone, quietHours.timezone))

\* ------------------------------------------------------------------------
\* Claims: validation (ValidateSpec)
\* ------------------------------------------------------------------------
Accepted == validation.result = "ok"

\* the conditions with "non-empty" read as: something is left after trimming
WellFormedTrimmed(n) ==
  /\ n.userId \notin {"", " "}
  /\ ~IsBlank(n.title) /\ n.title.len <= 100
  /\ ~IsBlank(n.message) /\ n.message.len <= 500
  /\ Len(n.channels) >= 1
  /\ n.actions <= 3
  /\ ~n.expiresAt.given \/ n.expiresAt.val > Now

\* the conditions with "non-empty" read as: at least one character
WellFormedNonEmpty(n) ==
  /\ n.userId # ""
  /\ n.title.len > 0 /\ n.title.len <= 100
  /\ n.message.len > 0 /\ n.message.len <= 500
  /\ Len(n.channels) >= 1
  /\ n.actions <= 3
  /\ ~n.expiresAt.given \/ n.expiresAt.val > Now

\* C20 (as stated): validateNotification succeeds exactly for a non-empty
\* recipient id, a non-empty title of at most 100 characters, a non-empty
\* message of at most 500, at least one channel, at most 3 actions and an
\* expiry absent or after the current instant, and leaves the entity as it
\* was.
C20_ValidateNonEmpty ==
  validation.called =>
    /\ Accepted <=> WellFormedNonEmpty(candidate)
    /\ validation.after = candidate

\* C20 (amended): the same with recipient id, title and message required to
\* be non-empty after trimming white space.
C20_ValidateTrimmed ==
  validation.called =>
    /\ Accepted <=> WellFormedTrimmed(candidate)
    /\ validation.after = candidate

C20_Witness ==
  /\ validation.called
  /\ Accepted
  /\ candidate.title.len = 100
  /\ candidate.message.len = 500
  /\ candidate.actions = 3
  /\ candidate.expiresAt = Given(Now + 1)

\* ------------------------------------------------------------------------
\* Claims: error surfaced by a single create (CreateSpec)
\* ------------------------------------------------------------------------
ValidationMessages ==
  {"User ID is required", "Notification title is required",
   "Notification message is required",
   "Notification title cannot exceed 100 characters",
   "Notification message cannot exceed 500 characters",
   "At least one notification channel is required",
   "Expiration date must be in the future",
   "Maximum 3 actions allowed per notification"}

\* C21: when CreateNotification.execute fails on a validation rule, the error
\* it throws carries a caller-fault (4xx) status, unlike the 500 of a
\* repository failure, and the call persists nothing.
C21_ValidationIsCallerFault ==
  (created.called /\ created.error \in ValidationMessages) =>
    /\ created.statusCode \in 400..499
    /\ ~created.ok

\* ------------------------------------------------------------------------
\* Claims: filterExpired and sortByPriority (ListSpec)
\* ------------------------------------------------------------------------

\* C22: filterExpired returns, in input order, exactly the notifications
\* with no expiry or an expiry strictly after the evaluation instant (an
\* expiry equal to the instant is excluded), and leaves its input as it was.
C22_FilterKeepsStrictlyFuture ==
  listCall.op = "filterExpired" =>
    /\ listCall.output =
         SelectSeq(listCall.input,
                   LAMBDA n : ~n.expiresAt.given \/ n.expiresAt.val > Now)
    /\ items = listCall.input

IsPermutation(s, t) ==
  /\ Len(s) = Len(t)
  /\ \A k \in 1..Len(s) : \E m \in 1..Len(t) : t[m] = s[k]
  /\ \A k, m \in 1..Len(t) : t[k].id = t[m].id => k = m

PositionIn(s, id) == CHOOSE k \in 1..Len(s) : s[k].id = id

\* C23: sortByPriority returns a permutation of its input ordered by weight
\* descending, then by creation instant descending, and elements equal in
\* both keys keep their input order.
C23_SortedByWeightThenNewest ==
  listCall.op = "sortByPriority" =>
    LET out == listCall.output
    IN /\ IsPermutation(listCall.input, out)
       /\ \A i, j \in 1..Len(out) :
            i < j =>
              LET wi == getPriorityWeight(out[i].priority)
                  wj == getPriorityWeight(out[j].priority)
              IN \/ wi > wj
                 \/ wi = wj /\ out[i].createdAt > out[j].createdAt
                 \/ /\ wi = wj
                    /\ out[i].createdAt = out[j].createdAt
                    /\ PositionIn(listCall.input, out[i].id)
                         < PositionIn(listCall.input, out[j].id)

\* [urgent@t1, normal@t2, high@t3] has been sorted to [urgent, high, normal],
\* and some array with two elements equal in both keys has been sorted
C23_Witness ==
  /\ listCall.op = "sortByPriority"
  /\ Len(listCall.input) = 3
  /\ listCall.input[1].priority = "URGENT" /\ listCall.input[1].createdAt = 1
  /\ listCall.input[2].priority = "NORMAL" /\ listCall.input[2].createdAt = 2
  /\ listCall.input[3].priority = "HIGH" /\ listCall.input[3].createdAt = 3
  /\ listCall.output[1].priority = "URGENT"
  /\ listCall.output[2].priority = "HIGH"
  /\ listCall.output[3].priority = "NORMAL"

\* ------------------------------------------------------------------------
\* Claims: retries of a push job (RetrySpec)
\* ------------------------------------------------------------------------
Terminal(j) == jobs[j].state \in {"completed", "failed"}

\* executions of job j started so far
Executions(j) == jobs[j].attemptsMade + (IF jobs[j].state = "active" THEN 1 ELSE 0)

\* C24: every submitted push job is executed at most 3 times; a job is failed
\* only after its third execution threw, a completed or failed job is never
\* executed again, and every submitted job eventually is completed or failed.
C24_BoundedRetries ==
  /\ [](\A j \in JobIds :
          /\ Executions(j) <= 3
          /\ jobs[j].state = "failed" => jobs[j].attemptsMade = 3)
  /\ [][\A j \in JobIds : Terminal(j) => jobs'[j] = jobs[j]]_vars
  /\ []<>(\A j \in JobIds : jobs[j].state \notin {"waiting", "active"})

\* a job has failed after three executions, the last of them thrown out of
\* the result loops
C24_Witness ==
  \E j \in JobIds :
    /\ jobs[j].state = "failed" /\ jobs[j].attemptsMade = 3
    /\ \E s \in SubIds : subs[s].present /\ subs[s].failureCount > 0

\* ------------------------------------------------------------------------
\* Claims: subscribe (SubscribeSpec)
\* ------------------------------------------------------------------------

\* the request's web endpoint, or mobile token, is the one of document r
MatchesRequest(r, d) ==
  IF d.deviceType = "WEB" THEN d.endpoint # "" /\ r.endpoint = d.endpoint
  ELSE d.deviceType \in {"ANDROID", "IOS"} /\ d.fcmToken # "" /\ r.fcmToken = d.fcmToken

\* C25: a subscribe call that returns for a request whose web endpoint (or
\* mobile token) is the one of a stored subscription adds no document: it
\* leaves one such document active, with failure count 0 and last-used set to
\* the current day, whatever its flag and count were, and touches no other.
C25_ResubscribeReactivates ==
  [][(/\ subCall'.called
      /\ subCall'.ok
      /\ \E k \in 1..Len(store) : MatchesRequest(store[k], subCall'.dto)) =>
       /\ Len(store') = Len(store)
       /\ \E k \in 1..Len(store) :
            /\ MatchesRequest(store[k], subCall'.dto)
            /\ store'[k] = [store[k] EXCEPT !.isActive = TRUE, !.failureCount = 0,
                                            !.lastUsedAt = today]
            /\ \A m \in 1..Len(store) : m # k => store'[m] = store[m]]_vars

\* a subscribe call has just reactivated a document that had been deactivated
\* by three failures on an earlier day
C25_Witness ==
  /\ subCall.called /\ subCall.ok /\ subCall.existing # 0
  /\ today = 1
  /\ store[subCall.existing].lastUsedAt = 1
  /\ store[subCall.existing].isActive
  /\ store[subCall.existing].failureCount = 0

PopulatedWeb(r) == r.endpoint # "" /\ r.keys = "both"

\* C26: every stored subscription has exactly one shape: a WEB document has
\* endpoint and both keys and no push token, an ANDROID or IOS document has a
\* push token and neither endpoint nor keys.
C26_OneShapePerRecord ==
  \A k \in 1..Len(store) :
       LET r == store[k]
       IN IF r.deviceType = "WEB"
          THEN PopulatedWeb(r) /\ r.fcmToken = ""
          ELSE /\ r.deviceType \in {"ANDROID", "IOS"}
               /\ r.fcmToken # "" /\ r.endpoint = "" /\ r.keys = "none"

\* ------------------------------------------------------------------------
\* Claims: mark as read (MarkSpec)
\* ------------------------------------------------------------------------
OnlyMarked(before, after, id) ==
  /\ after[id] = [before[id] EXCEPT !.isRead = TRUE]
  /\ \A m \in NoteIds : m # id => after[m] = before[m]

\* C27: MarkAsRead.execute changes a read state only of a notification that
\* exists and belongs to the caller; for an absent id it fails with 404, for
\* another recipient's notification with 403, and in both cases no repository
\* write happens and every read state stays as it was.
C27_MarkOnlyOwn ==
  lastExecute.called =>
    LET id == lastExecute.notificationId
        was == lastExecute.before[id]
    IN /\ (~lastExecute.findThrows /\ ~was.present) =>
            /\ lastExecute.statusCode = 404
            /\ ~lastExecute.wrote
            /\ inbox = lastExecute.before
       /\ (~lastExecute.findThrows /\ was.present /\ was.userId # lastExecute.userId) =>
            /\ lastExecute.statusCode = 403
            /\ ~lastExecute.wrote
            /\ inbox = lastExecute.before
       /\ inbox # lastExecute.before =>
            /\ was.present /\ was.userId = lastExecute.userId
            /\ OnlyMarked(lastExecute.before, inbox, id)

\* an execute for another recipient's notification has been refused while an
\* earlier one has marked a notification read
C27_Witness ==
  /\ lastExecute.called
  /\ lastExecute.statusCode = 403
  /\ \E n \in NoteIds : inbox[n].present /\ inbox[n].isRead /\ inbox[n].userId = "u2"

\* C28: when executeMany has ended, every id of its list that exists and
\* belongs to the recipient is marked read, except an id whose own marking
\* failed: a failing id does not keep the others from being marked.
C28_ManyIsolated ==
  manyCall.pc = "done" =>
    \A k \in 1..Len(manyCall.notificationIds) :
      LET id == manyCall.notificationIds[k]
      IN (/\ inbox[id].present
          /\ inbox[id].userId = manyCall.userId
          /\ ~(manyCall.statusCode # 0 /\ k = manyCall.i)) => inbox[id].isRead

\* ------------------------------------------------------------------------
\* Claims: repeated registration (PresenceSpec)
\* ------------------------------------------------------------------------
\* what the presence queries answer
Presence(m) ==
  [sockets |-> [u \in WsUsers |-> getUserSockets(m, u)],
   reverse |-> m.socketUsers,
   online |-> {u \in WsUsers : isUserOnline(m, u)},
   total |-> getTotalConnections(m)]

\* C29: in every state the tracker can be in, registering a connection id
\* for a recipient twice gives the presence state of registering it once, and
\* one removeConnection then takes the id out of the recipient's set and of
\* the reverse lookup.
C29_AddIdempotent ==
  \A x \in Sockets, u \in WsUsers :
    LET once == addConnection(manager, x, u)
        twice == addConnection(once, x, u)
        gone == removeConnection(twice, x)
    IN /\ Presence(twice) = Presence(once)
       /\ x \notin getUserSockets(gone, u)
       /\ gone.socketUsers[x] = NoUser
       /\ Presence(gone) = Presence(removeConnection(once, x))

\* a connection is registered for the one recipient it authenticated as, next
\* to another connection of the same recipient
C29_Witness ==
  \E x, y \in Sockets, u \in WsUsers :
    /\ x # y
    /\ socketState[x] = "open" /\ authAs[x] = {u} /\ manager.socketUsers[x] = u
    /\ socketState[y] = "open" /\ y \in getUserSockets(manager, u)

\* ------------------------------------------------------------------------
\* Claims: sendBatch (ProviderSpec)
\* ------------------------------------------------------------------------
EntriesOf(id) ==
  {k \in 1..Len(batchResult.entries) : batchResult.entries[k].id = id}

\* the provider contacts the push service for this subscription
Contacted(sub) ==
  /\ sub.isActive
  /\ IF batchResult.provider = "web" THEN isWebPush(sub) ELSE isFCM(sub)

\* C30: for every input list, the result of sendBatch holds every input
\* subscription id exactly once, as successful exactly when the push service
\* accepted the message for that subscription's endpoint/token, also when the
\* list holds inactive or wrong-family subscriptions (which can only fail).
C30_EveryIdOnceOwnOutcome ==
  batchResult.called =>
    \A k \in 1..Len(batch) :
      /\ Cardinality(EntriesOf(batch[k].id)) = 1
      /\ \A e \in EntriesOf(batch[k].id) :
           batchResult.entries[e].ok <=>
             (Contacted(batch[k]) /\ batch[k].raw = "OK" /\ ~batchResult.threw)

\* ------------------------------------------------------------------------
\* The socket events and the unread page
\* ------------------------------------------------------------------------
MarkedAll == lastEvent.event = "mark_all_as_read" /\ lastEvent.emitted = "all_marked_as_read"

\* C31: when mark_all_as_read completes without error, the unread_count of 0
\* it emits is the number of unread notifications the repository holds for
\* the recipient
C31_MarkAllLeavesNoneUnread ==
  MarkedAll => lastEvent.count = lastEvent.unreadLeft

\* the same with no more unread notifications than one page and none expired
OnePageNoneExpired ==
  (/\ MarkedAll
   /\ Len(collection) <= DefaultLimit
   /\ \A k \in 1..Len(collection) : ~isExpired(collection[k], instant))
  => lastEvent.count = lastEvent.unreadLeft


\* C38: getUnread(userId, limit) never returns a notification while it leaves
\* out an unread, non-expired notification of the same recipient with a
\* strictly higher priority weight
C38_HighestPriorityFirst ==
  lastEvent.event = "GET unread" =>
    \A k \in 1..Len(lastEvent.result) :
      \A e \in Documents(collection) :
        (/\ e.userId = lastEvent.lookup
         /\ ~e.isRead
         /\ ~isExpired(e, instant)
         /\ getPriorityWeight(e.priority)
              > getPriorityWeight(collection[lastEvent.result[k]].priority))
        => \E m \in 1..Len(lastEvent.result) : lastEvent.result[m] = e.id


\* the documents a step changes
Touched == {k \in 1..Len(collection) : collection'[k] # collection[k]}

\* the step is the second half of a mark_as_read handler
IsWrite(x) == pending[x].pc = "write" /\ pending'[x].pc = "idle"

\* C39: an event on a socket the reverse lookup holds no recipient for only
\* emits 'Not authenticated' and reaches no repository call; every other event
\* reads and writes for the recipient the lookup holds for the socket, and
\* what it returns or changes belongs to that recipient
C39_OnlyAuthenticatedActs ==
  [][(lastEvent = NoEvent /\ lastEvent' # NoEvent /\ lastEvent'.socket # "") =>
       LET x == lastEvent'.socket
           held == manager.socketUsers[x]
       IN /\ (held = NoUser /\ ~IsWrite(x)) =>
               /\ lastEvent'.emitted = "error: Not authenticated"
               /\ lastEvent'.accessed = {}
               /\ lastEvent'.result = <<>>
               /\ collection' = collection
               /\ pending' = pending
          /\ (held # NoUser /\ ~IsWrite(x)) => lastEvent'.accessed = {held}
          /\ lastEvent'.accessed \subseteq authAs[x]
          /\ \A k \in Touched : collection[k].userId \in lastEvent'.accessed
          /\ \A k \in 1..Len(lastEvent'.result) :
               collection[lastEvent'.result[k]].userId \in lastEvent'.accessed
    ]_vars

\* a socket without a recipient was refused while another recipient's
\* notification, already marked by that recipient's socket, stayed as it was
C39_Witness ==
  /\ lastEvent.emitted = "error: Not authenticated"
  /\ lastEvent.event = "mark_all_as_read"
  /\ \E k \in 1..Len(collection) : collection[k].isRead
  /\ \E k \in 1..Len(collection) : ~collection[k].isRead


\* C40: once a notification is read it stays read and its stored readAt
\* keeps the instant of the first mark
C40_ReadMarkerSetOnce ==
  [][\A k \in 1..Len(collection) :
       collection[k].isRead =>
         /\ collection'[k].isRead
         /\ collection'[k].readAt = collection[k].readAt]_vars

\* the part of it that concerns the flag alone
ReadStaysRead ==
  [][\A k \in 1..Len(collection) : collection[k].isRead => collection'[k].isRead]_vars


\* ------------------------------------------------------------------------
\* Ownership and uniqueness of subscriptions (OwnerSpec)
\* ------------------------------------------------------------------------
Subscribed == subCall'.called /\ ~subCall.called /\ subCall'.dto.deviceType # ""

Unsubscribed == subCall'.called /\ ~subCall.called /\ subCall'.dto.deviceType = ""

\* the subscription a successful subscribe returns is the caller's and is
\* stored active
ReturnsOwn ==
  (Subscribed /\ subCall'.ok) =>
     LET id == IF subCall'.existing # 0 THEN subCall'.existing ELSE issued'
     IN \E k \in 1..Len(store') :
          /\ store'[k].id = id
          /\ store'[k].userId = subCall'.dto.userId
          /\ store'[k].isActive

\* documents leave the collection only through an unsubscribe of their owner;
\* an unsubscribe that fails deletes nothing
DeletesOnlyOwn ==
  /\ \A k \in 1..Len(store) :
       (\A m \in 1..Len(store') : store'[m].id # store[k].id) =>
         /\ Unsubscribed /\ subCall'.ok
         /\ store[k].id = subCall'.existing
         /\ store[k].userId = subCall'.dto.userId
  /\ (Unsubscribed /\ ~subCall'.ok) => store' = store

UnsubscribeOnlyOwn == [][DeletesOnlyOwn]_vars

\* C32: after subscribe(dto) succeeds the returned subscription is owned by
\* dto.userId and listed among that recipient's active subscriptions, also
\* when the endpoint or token was registered by another recipient before;
\* unsubscribe by someone who is not the owner fails and deletes nothing
C32_OwnerGovernsAccess == [][ReturnsOwn /\ DeletesOnlyOwn]_vars

\* C35: whatever the interleaving of subscribe calls, no two stored
\* subscriptions carry the same web endpoint or the same mobile token
C35_OneRecordPerDevice ==
  \A k, m \in 1..Len(store) :
    k # m =>
      /\ ~(store[k].endpoint # "" /\ store[k].endpoint = store[m].endpoint)
      /\ ~(store[k].fcmToken # "" /\ store[k].fcmToken = store[m].fcmToken)


\* ------------------------------------------------------------------------
\* Subscription records under the worker (FaultSpec, Spec)
\* ------------------------------------------------------------------------
BelowThreshold(sub) ==
  /\ sub.isActive => sub.failureCount <= 2
  /\ sub.failureCount >= 3 => ~sub.isActive

\* C33: every subscription record, stored or held by a running job, that is
\* active has a failure count of at most 2; one whose count reached 3 is
\* inactive
C33_ActiveBelowThreshold ==
  /\ \A s \in SubIds : subs[s].present => BelowThreshold(subs[s])
  /\ \A j \in JobIds :
       \A k \in 1..Len(jobs[j].subscriptions) : BelowThreshold(jobs[j].subscriptions[k])

\* a third strike has been stored by a job that is still running
C33_Witness ==
  \E s \in SubIds, j \in JobIds :
    /\ subs[s].present /\ subs[s].failureCount = 3 /\ ~subs[s].isActive
    /\ jobs[j].state = "active"
    /\ \E k \in 1..Len(jobs[j].subscriptions) :
         /\ jobs[j].subscriptions[k].id = s
         /\ jobs[j].subscriptions[k].failureCount = 3

\* C34: a stored subscription that is inactive becomes active again only by
\* a subscribe for its endpoint or token, never by the update of a push job
C34_InactiveStaysInactive ==
  [][\A s \in SubIds :
       (subs[s].present /\ ~subs[s].isActive /\ subs'[s].isActive) =>
         \A j \in JobIds : jobs'[j] = jobs[j]]_vars


\* C36: over all attempts of one push job, the push service accepts the
\* notification for each subscription at most once
C36_SentOncePerJob ==
  \A j \in JobIds, s \in SubIds : delivered[j][s] <= 1


\* the number of times executeBatched has handed the recipient id to execute
\* and collected its outcome
Handled(userId) ==
  Cardinality({k \in 1..Len(bcall.allSuccessful) : bcall.allSuccessful[k].userId = userId})
    + Cardinality({k \in 1..Len(bcall.allFailed) : bcall.allFailed[k].userId = userId})

BatchedDone ==
  /\ bcall.pc = "done"
  /\ \A k \in 1..Len(dto.userIds) : Handled(dto.userIds[k]) = 1

\* C37: executeBatched returns for every recipient list and every integer
\* batchSize, zero and negative included, and by then it has processed each
\* recipient id of the list exactly once
C37_BatchedTerminates ==
  (bcall.pc = "loop") ~> BatchedDone

====
